---- MODULE Spec2Model ----
(***************************************************************************)
(* A model of ceres.py: one CeresNode (a metric directory), its slice      *)
(* files, and the CeresSlice / CeresNode / TimeSeriesData operations.      *)
(*                                                                         *)
(* Times are seconds, as in the source.  A slice file is a record          *)
(* [size, data]: size is the byte length the code sees through getsize,    *)
(* data the doubles it holds (one per DATAPOINT_SIZE bytes).  A datapoint  *)
(* is a pair <<timestamp, value>>.  Integer division is Python 2's "/" on  *)
(* ints (floor), which is \div.                                            *)
(***************************************************************************)
EXTENDS Integers, Sequences, FiniteSets, TLC

VARIABLES files, timeStep, metadata, sliceCache, sliceCachingBehavior, opCount, last,
          handle, writers

vars == <<files, timeStep, metadata, sliceCache, sliceCachingBehavior, opCount, last,
          handle, writers>>

(***************************************************************************)
(* Program constants.                                                      *)
(***************************************************************************)
DATAPOINT_SIZE == 8
MAX_SLICE_GAP == 80
DEFAULT_TIMESTEP == 60
\* float('nan') as stored in a slice file; no datapoint value equals it.
NAN == -1
\* Python's None: a missing value in a series, an unset attribute.
None == NAN - 1

(***************************************************************************)
(* Bounds of the model.                                                    *)
(***************************************************************************)
\* calls that change the node (write, deleteBefore) in one behaviour
MaxOps == 2
\* datapoints in one Node.write call
MaxPoints == 2

(***************************************************************************)
(* Sequence helpers (Python list operations).                              *)
(***************************************************************************)
Max(a, b) == IF a >= b THEN a ELSE b
Min(a, b) == IF a <= b THEN a ELSE b

\* seq[:n] for 0 <= n
Take(seq, n) == SubSeq(seq, 1, Min(n, Len(seq)))
\* seq[n:] for 0 <= n
Drop(seq, n) == SubSeq(seq, n + 1, Len(seq))
\* [x] * n ; an empty list when n <= 0
Repeat(x, n) == [i \in 1..Max(n, 0) |-> x]

\* tuple comparison a < b of Python, on pairs of integers
PairLess(a, b) == a[1] < b[1] \/ (a[1] = b[1] /\ a[2] < b[2])

RECURSIVE InsertSorted(_, _)
InsertSorted(x, seq) ==
  IF seq = <<>> THEN <<x>>
  ELSE IF PairLess(x, Head(seq)) THEN <<x>> \o seq
  ELSE <<Head(seq)>> \o InsertSorted(x, Tail(seq))

\* sorted(pairs)
RECURSIVE sorted(_)
sorted(seq) ==
  IF seq = <<>> THEN <<>> ELSE InsertSorted(Head(seq), sorted(Tail(seq)))

\* bisect.bisect_left on an ascending list: the number of elements < x
RECURSIVE bisect_left(_, _)
bisect_left_short(ts, x) ==
  Max(0, Cardinality({i \in 1..Len(ts) : ts[i] < x}) - 1)

bisect_left(ts, x) ==
  IF ts = <<>> \/ Head(ts) >= x THEN 0 ELSE 1 + bisect_left(Tail(ts), x)

timestampsOf(sequence) == [i \in 1..Len(sequence) |-> sequence[i][1]]
valuesOf(sequence) == [i \in 1..Len(sequence) |-> sequence[i][2]]

(***************************************************************************)
(* Slice files.  A slice is named by <<startTime, timeStep>>, the two      *)
(* numbers of its file name "<startTime>@<timeStep>.slice".                *)
(***************************************************************************)
EmptyFile == [size |-> 0, data |-> <<>>]

exists(fs, slice) == slice \in DOMAIN fs
getsize(fs, slice) == fs[slice].size

\* the file system with file `slice` set to f (created when absent)
PutFile(fs, slice, f) ==
  [s \in DOMAIN fs \cup {slice} |-> IF s = slice THEN f ELSE fs[s]]

RemoveFile(fs, slice) == [s \in DOMAIN fs \ {slice} |-> fs[s]]

\* SeekWrite on a file opened for appending: the seek is without effect and
\* the doubles land at the end of the file
SeekWrite_appending(f, byteOffset, packedValues) ==
  [size |-> f.size + Len(packedValues) * DATAPOINT_SIZE,
   data |-> f.data \o packedValues]

\* fileHandle.seek(byteOffset); fileHandle.write(packedValues) on an 'r+b'
\* handle: the doubles land from byteOffset on and the file grows as needed;
\* bytes between the old end of the file and byteOffset read as zeros (0.0)
SeekWrite(f, byteOffset, packedValues) ==
  LET pointOffset == byteOffset \div DATAPOINT_SIZE
      n == Len(packedValues)
      newSize == Max(f.size, byteOffset + n * DATAPOINT_SIZE)
  IN [size |-> newSize,
      data |-> [i \in 1..(newSize \div DATAPOINT_SIZE) |->
                  IF i > pointOffset /\ i <= pointOffset + n
                  THEN packedValues[i - pointOffset]
                  ELSE IF i <= Len(f.data) THEN f.data[i]
                  ELSE 0]]

\* CeresSlice.endTime
endTime(fs, slice) ==
  slice[1] + (getsize(fs, slice) \div DATAPOINT_SIZE) * slice[2]

\* CeresSlice.create: open(fsPath, 'wb') creates the file, or truncates it
CeresSlice_create(fs, startTime, step) == PutFile(fs, <<startTime, step>>, EmptyFile)

\* byte offset of timestamp t in a slice (write, read and deleteBefore)
ByteOffset(slice, t) == ((t - slice[1]) \div slice[2]) * DATAPOINT_SIZE

\* CeresSlice.write without line 643: the gap is measured and the offset moved
\* back to the end of the file, but no NaN is put before the values
CeresSlice_write_unpadded(fs, slice, sequence) ==
  IF sequence = <<>> THEN [fs |-> fs, status |-> "IndexError"]
  ELSE IF ~exists(fs, slice) THEN [fs |-> fs, status |-> "SliceDeleted"]
  ELSE
    LET byteOffset == ByteOffset(slice, sequence[1][1])
        filesize == getsize(fs, slice)
        byteGap == byteOffset - filesize
        pointGap == byteGap \div DATAPOINT_SIZE
    IN IF byteGap > 0 /\ pointGap > MAX_SLICE_GAP
       THEN [fs |-> fs, status |-> "SliceGapTooLarge"]
       ELSE
         LET packedValues == valuesOf(sequence)
             seekTo == IF byteGap > 0 THEN byteOffset - byteGap ELSE byteOffset
         IN IF seekTo < 0
            THEN [fs |-> fs, status |-> "IOError"]
            ELSE [fs |-> PutFile(fs, slice, SeekWrite(fs[slice], seekTo, packedValues)),
                  status |-> "ok"]

\* CeresSlice.write with the gap test off by one (>= for >)
CeresSlice_write_gapOffByOne(fs, slice, sequence) ==
  IF sequence = <<>> THEN [fs |-> fs, status |-> "IndexError"]
  ELSE IF ~exists(fs, slice) THEN [fs |-> fs, status |-> "SliceDeleted"]
  ELSE
    LET byteOffset == ByteOffset(slice, sequence[1][1])
        filesize == getsize(fs, slice)
        byteGap == byteOffset - filesize
        pointGap == byteGap \div DATAPOINT_SIZE
    IN IF byteGap > 0 /\ pointGap >= MAX_SLICE_GAP
       THEN [fs |-> fs, status |-> "SliceGapTooLarge"]
       ELSE
         LET packedValues == IF byteGap > 0
                             THEN Repeat(NAN, pointGap) \o valuesOf(sequence)
                             ELSE valuesOf(sequence)
             seekTo == IF byteGap > 0 THEN byteOffset - byteGap ELSE byteOffset
         IN IF seekTo < 0
            THEN [fs |-> fs, status |-> "IOError"]
            ELSE [fs |-> PutFile(fs, slice, SeekWrite(fs[slice], seekTo, packedValues)),
                  status |-> "ok"]

\* CeresSlice.write: the file system after the call and how the call ended
CeresSlice_write(fs, slice, sequence) ==
  IF sequence = <<>> THEN [fs |-> fs, status |-> "IndexError"]
  ELSE IF ~exists(fs, slice) THEN [fs |-> fs, status |-> "SliceDeleted"]
  ELSE
    LET byteOffset == ByteOffset(slice, sequence[1][1])
        filesize == getsize(fs, slice)
        byteGap == byteOffset - filesize
        pointGap == byteGap \div DATAPOINT_SIZE
    IN IF byteGap > 0 /\ pointGap > MAX_SLICE_GAP
       THEN [fs |-> fs, status |-> "SliceGapTooLarge"]
       ELSE
         LET packedValues == IF byteGap > 0
                             THEN Repeat(NAN, pointGap) \o valuesOf(sequence)
                             ELSE valuesOf(sequence)
             seekTo == IF byteGap > 0 THEN byteOffset - byteGap ELSE byteOffset
         IN IF seekTo < 0
            THEN [fs |-> fs, status |-> "IOError"]
            ELSE [fs |-> PutFile(fs, slice, SeekWrite(fs[slice], seekTo, packedValues)),
                  status |-> "ok"]

(***************************************************************************)
(* CeresNode.readSlices and the slices property.                           *)
(***************************************************************************)
RECURSIVE SortedDescending(_)
SortedDescending(S) ==
  IF S = {} THEN <<>>
  ELSE LET m == CHOOSE x \in S : \A y \in S : y = x \/ PairLess(y, x)
       IN <<m>> \o SortedDescending(S \ {m})

\* the (startTime, timeStep) of every slice file, sorted in reverse
readSlices(fs) == SortedDescending(DOMAIN fs)

\* The slices the property yields when iterated to its end.  sliceCache is a
\* list of slices: empty for None, the newest slice alone under 'latest'.
slices(fs, cache, behavior) ==
  IF cache # <<>>
  THEN IF behavior = "all" THEN cache
       ELSE IF behavior = "latest" THEN cache \o Drop(readSlices(fs), 1)
       ELSE <<>>
  ELSE readSlices(fs)

\* sliceCache once the property has been iterated
cacheAfterSlices(fs, cache, behavior) ==
  IF cache # <<>> THEN cache
  ELSE IF behavior = "all" THEN readSlices(fs)
  ELSE IF behavior = "latest" THEN Take(readSlices(fs), 1)
  ELSE <<>>

(***************************************************************************)
(* CeresNode.compact                                                       *)
(***************************************************************************)
\* the generator handed to sorted(): points whose value is not None
RECURSIVE notNone(_)
notNone(datapoints) ==
  IF datapoints = <<>> THEN <<>>
  ELSE IF Head(datapoints)[2] = None THEN notNone(Tail(datapoints))
  ELSE <<Head(datapoints)>> \o notNone(Tail(datapoints))

\* the for loop of compact over the sorted points
RECURSIVE compactLoop(_, _, _, _, _)
compactLoop(points, step, sequences, sequence, minimumTimestamp) ==
  IF points = <<>>
  THEN IF sequence # <<>> THEN Append(sequences, sequence) ELSE sequences
  ELSE
    LET timestamp == Head(points)[1] - (Head(points)[1] % step)
        value == Head(points)[2]
        rest == Tail(points)
    IN IF sequence = <<>>
       THEN compactLoop(rest, step, sequences, <<<<timestamp, value>>>>, timestamp)
       ELSE IF ~(timestamp > minimumTimestamp)
       THEN compactLoop(rest, step, sequences, sequence, minimumTimestamp)
       ELSE IF timestamp = sequence[Len(sequence)][1] + step
       THEN compactLoop(rest, step, sequences,
                        Append(sequence, <<timestamp, value>>), timestamp)
       ELSE compactLoop(rest, step, Append(sequences, sequence),
                        <<<<timestamp, value>>>>, timestamp)

compact_unsorted(datapoints, step) ==
  compactLoop(notNone(datapoints), step, <<>>, <<>>, 0)

compact(datapoints, step) ==
  compactLoop(sorted(notNone(datapoints)), step, <<>>, <<>>, 0)

(***************************************************************************)
(* CeresNode.write.  The state threaded through the call is a record       *)
(* [fs, cache, log]: the files, sliceCache, and the CeresSlice calls made  *)
(* so far (create and write, with their slice and sequence).               *)
(***************************************************************************)
LogCreate(slice) == [call |-> "create", slice |-> slice, sequence |-> <<>>]
LogWrite(slice, sequence) == [call |-> "write", slice |-> slice, sequence |-> sequence]

\* lines 483-492: slice.write(sequenceWithinSlice) in the owning slice, with
\* its two handlers.  kind is "break", "retry" (SliceDeleted) or "raise".
writeOwning(st, slice, sequence, sequenceWithinSlice) ==
  LET w == CeresSlice_write(st.fs, slice, sequenceWithinSlice)
      logged == Append(st.log, LogWrite(slice, sequenceWithinSlice))
  IN IF w.status = "ok"
     THEN [kind |-> "break", status |-> "ok",
           st |-> [fs |-> w.fs, cache |-> st.cache, log |-> logged]]
     ELSE IF w.status = "SliceGapTooLarge"
     THEN LET newSlice == <<sequence[1][1], slice[2]>>
              created == CeresSlice_create(st.fs, newSlice[1], newSlice[2])
              w2 == CeresSlice_write(created, newSlice, sequenceWithinSlice)
              logged2 == logged \o <<LogCreate(newSlice),
                                     LogWrite(newSlice, sequenceWithinSlice)>>
          IN IF w2.status = "ok"
             THEN [kind |-> "break", status |-> "ok",
                   st |-> [fs |-> w2.fs, cache |-> <<>>, log |-> logged2]]
             ELSE [kind |-> "raise", status |-> w2.status,
                   st |-> [fs |-> w2.fs, cache |-> st.cache, log |-> logged2]]
     ELSE IF w.status = "SliceDeleted"
     THEN [kind |-> "retry", status |-> "ok",
           st |-> [fs |-> w.fs, cache |-> <<>>, log |-> logged]]
     ELSE [kind |-> "raise", status |-> w.status,
           st |-> [fs |-> w.fs, cache |-> st.cache, log |-> logged]]

\* lines 468-509: the for loop over self.slices for one sequence.  `rest` are
\* the slices still to come, `sequences` the stack without `sequence`.
\* kind "end" is the loop running out of slices.
RECURSIVE walkSlices(_, _, _, _, _, _, _, _)
walkSlices_anyStep(st, rest, step, sequence, sequences, needsEarlierSlice, sliceBoundary, slicesExist) ==
  IF rest = <<>>
  THEN [kind |-> "end", status |-> "ok", st |-> st, sequences |-> sequences,
        needsEarlierSlice |-> needsEarlierSlice, slicesExist |-> slicesExist]
  ELSE
    LET slice == Head(rest)
        timestamps == timestampsOf(sequence)
        beginningTime == timestamps[1]
        endingTime == timestamps[Len(timestamps)]
    IN IF FALSE
       THEN walkSlices(st, Tail(rest), step, sequence, sequences,
                       needsEarlierSlice, sliceBoundary, slicesExist)
       ELSE IF beginningTime >= slice[1]
       THEN LET sequenceWithinSlice ==
                  IF sliceBoundary = None THEN sequence
                  ELSE Take(sequence, bisect_left(timestamps, sliceBoundary))
                r == writeOwning(st, slice, sequence, sequenceWithinSlice)
            IN [kind |-> r.kind, status |-> r.status, st |-> r.st,
                sequences |-> sequences,
                needsEarlierSlice |-> needsEarlierSlice, slicesExist |-> TRUE]
       ELSE IF endingTime >= slice[1]
       THEN LET boundaryIndex == bisect_left(timestamps, slice[1])
                sequenceWithinSlice == Drop(sequence, boundaryIndex)
                leftover == Take(sequence, boundaryIndex)
                w == CeresSlice_write(st.fs, slice, sequenceWithinSlice)
            IN [kind |-> IF w.status = "ok" THEN "break" ELSE "raise",
                status |-> w.status,
                st |-> [fs |-> w.fs, cache |-> st.cache,
                        log |-> Append(st.log, LogWrite(slice, sequenceWithinSlice))],
                sequences |-> Append(sequences, leftover),
                needsEarlierSlice |-> needsEarlierSlice, slicesExist |-> TRUE]
       ELSE walkSlices(st, Tail(rest), step, sequence, sequences,
                       Append(needsEarlierSlice, sequence), slice[1], TRUE)

walkSlices(st, rest, step, sequence, sequences, needsEarlierSlice, sliceBoundary, slicesExist) ==
  IF rest = <<>>
  THEN [kind |-> "end", status |-> "ok", st |-> st, sequences |-> sequences,
        needsEarlierSlice |-> needsEarlierSlice, slicesExist |-> slicesExist]
  ELSE
    LET slice == Head(rest)
        timestamps == timestampsOf(sequence)
        beginningTime == timestamps[1]
        endingTime == timestamps[Len(timestamps)]
    IN IF slice[2] # step
       THEN walkSlices(st, Tail(rest), step, sequence, sequences,
                       needsEarlierSlice, sliceBoundary, slicesExist)
       ELSE IF beginningTime >= slice[1]
       THEN LET sequenceWithinSlice ==
                  IF sliceBoundary = None THEN sequence
                  ELSE Take(sequence, bisect_left(timestamps, sliceBoundary))
                r == writeOwning(st, slice, sequence, sequenceWithinSlice)
            IN [kind |-> r.kind, status |-> r.status, st |-> r.st,
                sequences |-> sequences,
                needsEarlierSlice |-> needsEarlierSlice, slicesExist |-> TRUE]
       ELSE IF endingTime >= slice[1]
       THEN LET boundaryIndex == bisect_left(timestamps, slice[1])
                sequenceWithinSlice == Drop(sequence, boundaryIndex)
                leftover == Take(sequence, boundaryIndex)
                w == CeresSlice_write(st.fs, slice, sequenceWithinSlice)
            IN [kind |-> IF w.status = "ok" THEN "break" ELSE "raise",
                status |-> w.status,
                st |-> [fs |-> w.fs, cache |-> st.cache,
                        log |-> Append(st.log, LogWrite(slice, sequenceWithinSlice))],
                sequences |-> Append(sequences, leftover),
                needsEarlierSlice |-> needsEarlierSlice, slicesExist |-> TRUE]
       ELSE walkSlices(st, Tail(rest), step, sequence, sequences,
                       Append(needsEarlierSlice, sequence), slice[1], TRUE)

\* lines 516-519: a new slice for every entry of needsEarlierSlice
RECURSIVE createEarlierSlices(_, _, _)
createEarlierSlices(st, step, needsEarlierSlice) ==
  IF needsEarlierSlice = <<>> THEN [st |-> st, status |-> "ok"]
  ELSE
    LET sequence == Head(needsEarlierSlice)
    IN IF sequence = <<>> THEN [st |-> st, status |-> "IndexError"]
       ELSE
         LET slice == <<sequence[1][1], step>>
             created == CeresSlice_create(st.fs, slice[1], slice[2])
             w == CeresSlice_write(created, slice, sequence)
             logged == st.log \o <<LogCreate(slice), LogWrite(slice, sequence)>>
         IN IF w.status # "ok"
            THEN [st |-> [fs |-> w.fs, cache |-> st.cache, log |-> logged],
                  status |-> w.status]
            ELSE createEarlierSlices([fs |-> w.fs, cache |-> <<>>, log |-> logged],
                                     step, Tail(needsEarlierSlice))

\* lines 450-519.  The result is [st, status]: status "ok" for a normal
\* return, else the exception that left the call.
RECURSIVE CeresNode_write(_, _, _, _)
RECURSIVE writeSequences(_, _, _, _, _, _)
writeSequences(st, behavior, step, datapoints, sequences, needsEarlierSlice) ==
  IF sequences = <<>> THEN createEarlierSlices(st, step, needsEarlierSlice)
  ELSE
    LET sequence == sequences[Len(sequences)]
        popped == Take(sequences, Len(sequences) - 1)
        listed == slices(st.fs, st.cache, behavior)
        st1 == [st EXCEPT !.cache = cacheAfterSlices(st.fs, st.cache, behavior)]
        r == walkSlices(st1, listed, step, sequence, popped, needsEarlierSlice, None, FALSE)
    IN IF r.kind = "raise" THEN [st |-> r.st, status |-> r.status]
       ELSE IF r.kind = "retry"
       THEN CeresNode_write(r.st, behavior, step, datapoints)
       ELSE IF r.kind = "end" /\ ~r.slicesExist
       THEN createEarlierSlices(r.st, step, Append(r.sequences, sequence))
       ELSE writeSequences(r.st, behavior, step, datapoints, r.sequences,
                           r.needsEarlierSlice)

CeresNode_write(st, behavior, step, datapoints) ==
  IF datapoints = <<>> THEN [st |-> st, status |-> "ok"]
  ELSE writeSequences(st, behavior, step, datapoints, compact(datapoints, step), <<>>)

(***************************************************************************)
(* TimeSeriesData: a record [startTime, endTime, timeStep, values].  An    *)
(* operation that can raise returns [status, series].                      *)
(***************************************************************************)
TimeSeriesData(start, end, step, values) ==
  [startTime |-> start, endTime |-> end, timeStep |-> step, values |-> values]

NoSeries == TimeSeriesData(0, 0, 0, <<>>)

\* TimeSeriesData.__add__
add(self, other) ==
  IF self.timeStep # other.timeStep
  THEN [status |-> "ValueError", series |-> NoSeries]
  ELSE [status |-> "ok",
        series |-> TimeSeriesData(self.startTime, other.endTime, self.timeStep,
                                  self.values \o other.values)]

\* lines 727-737 as the loop runs: a negative index counts from the end of
\* self.values, and an index outside the list appends
RECURSIVE mergeLoop(_, _, _, _, _, _)
mergeLoop(values, others, ts, index, selfEndTime, step) ==
  IF others = <<>> THEN values
  ELSE IF ts > selfEndTime
  THEN mergeLoop(Append(values, Head(others)), Tail(others), ts + step, index,
                 selfEndTime, step)
  ELSE LET n == Len(values)
           position == IF index >= 0 THEN index + 1 ELSE n + index + 1
       IN mergeLoop(IF index < n /\ index >= -n
                    THEN [values EXCEPT ![position] = Head(others)]
                    ELSE Append(values, Head(others)),
                    Tail(others), ts + step, index + 1, selfEndTime, step)

\* TimeSeriesData.merge, for other.startTime >= self.startTime (the docstring's
\* condition, which every call in CeresNode.read meets).  The for loop in
\* closed form: the first `indexed` values of other take the else branch
\* (ts <= self.endTime); of these the first `overwritten` find their index
\* inside self.values and replace what is there; from the first IndexError
\* on, index stays at or past the end of the list, so that value and all
\* later ones, like those with ts > self.endTime, are appended in order.
merge(self, other) ==
  IF self.timeStep # other.timeStep
  THEN [status |-> "ValueError", series |-> self]
  ELSE
    LET ts == other.startTime - (other.startTime % self.timeStep)
        index == (ts - self.startTime) \div self.timeStep
        n == Len(self.values)
        m == Len(other.values)
        indexed == IF ts > self.endTime THEN 0
                   ELSE Min(m, (self.endTime - ts) \div self.timeStep + 1)
        overwritten == Max(0, Min(indexed, n - index))
        merged == [i \in 1..(n + m - overwritten) |->
                     IF i > n THEN other.values[overwritten + (i - n)]
                     ELSE IF i > index /\ i <= index + overwritten
                     THEN other.values[i - index]
                     ELSE self.values[i]]
    IN [status |-> "ok",
        series |-> TimeSeriesData(self.startTime,
                                  Max(self.endTime, other.endTime),
                                  self.timeStep,
                                  IF index < 0
                                  THEN mergeLoop(self.values, other.values, ts, index,
                                                 self.endTime, self.timeStep)
                                  ELSE merged)]

(***************************************************************************)
(* aggregate_avg and recalculateSeries                                     *)
(***************************************************************************)
RECURSIVE sumPresent(_)
sumPresent(values) ==
  IF values = <<>> THEN 0
  ELSE (IF Head(values) = None THEN 0 ELSE Head(values)) + sumPresent(Tail(values))

\* aggregate_avg.  The loop returns None at the first None that makes the
\* Nones outnumber the values still counted; as the one count only grows and
\* the other only shrinks, that happens iff it is so at the end.  The datapoint
\* values of this model are all even, so the mean of one or two is whole.
aggregate_avg(values) ==
  LET nones == Cardinality({i \in 1..Len(values) : values[i] = None})
      length == Len(values) - nones
  IN IF Len(values) = 0 \/ nones > length THEN None
     ELSE sumPresent(values) \div length

recalculateSeries(values, old_timeStep, new_timeStep) ==
  LET factor == new_timeStep \div old_timeStep
      full == Len(values) \div factor
      left == Len(values) - full * factor
      chunk(c) == SubSeq(values, (c - 1) * factor + 1, c * factor)
      tail == SubSeq(values, full * factor + 1, Len(values))
  IN [c \in 1..full |-> aggregate_avg(chunk(c))]
     \o (IF left > factor \div 4 THEN <<aggregate_avg(tail)>> ELSE <<>>)

(***************************************************************************)
(* CeresSlice.read                                                         *)
(***************************************************************************)
\* value of a stored double as the reader reports it
unpacked(v) == IF v = NAN THEN None ELSE v

CeresSlice_read(fs, slice, fromTime, untilTime) ==
  LET timeOffset == fromTime - slice[1]
      pointOffset == timeOffset \div slice[2]
      byteOffset == pointOffset * DATAPOINT_SIZE
  IN IF timeOffset < 0 THEN [status |-> "InvalidRequest", series |-> NoSeries]
     ELSE IF ~exists(fs, slice) THEN [status |-> "OSError", series |-> NoSeries]
     ELSE IF byteOffset >= getsize(fs, slice) THEN [status |-> "NoData", series |-> NoSeries]
     ELSE
       LET timeRange == untilTime - fromTime
           pointRange == timeRange \div slice[2]
           byteRange == pointRange * DATAPOINT_SIZE
           available == getsize(fs, slice) - byteOffset
           \* file.read(n) reads to the end of the file when n is negative
           bytesRead == IF byteRange < 0 THEN available ELSE Min(byteRange, available)
           pointsReturned == bytesRead \div DATAPOINT_SIZE
           values == [i \in 1..pointsReturned |-> unpacked(fs[slice].data[pointOffset + i])]
       IN [status |-> "ok",
           series |-> TimeSeriesData(fromTime, fromTime + Len(values) * slice[2],
                                     slice[2], values)]

(***************************************************************************)
(* CeresNode.hasDataForInterval                                            *)
(***************************************************************************)
hasDataForInterval(fs, cache, behavior, fromTime, untilTime) ==
  LET listed == slices(fs, cache, behavior)
      earliestData == listed[Len(listed)][1]
      latestData == endTime(fs, listed[1])
  IN IF listed = <<>> THEN FALSE
     ELSE /\ (fromTime = 0 \/ fromTime = None \/ fromTime < latestData)
          /\ (untilTime = 0 \/ untilTime = None \/ untilTime > earliestData)

(***************************************************************************)
(* CeresNode.read                                                          *)
(***************************************************************************)
\* lines 345-353: biggest_timeStep after the first loop over self.slices
RECURSIVE biggestTimeStep(_, _, _, _)
biggestTimeStep(listed, fromTime, untilTime, biggest) ==
  IF listed = <<>> THEN biggest
  ELSE LET slice_tmp == Head(listed)
       IN IF fromTime >= slice_tmp[1] THEN Max(biggest, slice_tmp[2])
          ELSE IF untilTime >= slice_tmp[1]
          THEN biggestTimeStep(Tail(listed), fromTime, untilTime, Max(biggest, slice_tmp[2]))
          ELSE biggestTimeStep(Tail(listed), fromTime, untilTime, biggest)

\* lines 346-351: the slices the first loop saw before its break, which are
\* the entries of slices_map
RECURSIVE slicesMapped(_, _)
slicesMapped(listed, fromTime) ==
  IF listed = <<>> THEN {}
  ELSE IF fromTime >= Head(listed)[1] THEN {Head(listed)}
  ELSE {Head(listed)} \cup slicesMapped(Tail(listed), fromTime)

\* lines 360-363
bogus(fs, slice_tmp, mapped, fromTime, untilTime) ==
  \E item \in mapped :
    \/ slice_tmp[1] > item[1] /\ endTime(fs, slice_tmp) < endTime(fs, item)
    \/ slice_tmp[1] > untilTime \/ endTime(fs, slice_tmp) < fromTime

\* The state of the loops of lines 358-420: sliceBoundary, resultValues (with
\* hasResult FALSE for None), result_length, earliestData, and the exception
\* that ended the call, if any.
ReadState(sliceBoundary, hasResult, resultValues, result_length, earliestData, status) ==
  [sliceBoundary |-> sliceBoundary, hasResult |-> hasResult,
   resultValues |-> resultValues, result_length |-> result_length,
   earliestData |-> earliestData, status |-> status]

\* lines 389-418 for one slice whose read returned series0
stitch(rs, slice, series0, requestUntilTime, biggest) ==
  LET series == IF slice[2] < biggest
                THEN [series0 EXCEPT
                        !.values = recalculateSeries(series0.values, slice[2], biggest),
                        !.timeStep = biggest]
                ELSE series0
      rightMissing == (requestUntilTime - series.endTime) \div biggest
      result_length == IF rs.hasResult THEN rs.result_length ELSE 0
      rightNulls == TimeSeriesData(series.endTime, series.endTime + rightMissing, biggest,
                                   Repeat(None, rightMissing - result_length))
      padded == add(series, rightNulls)
      merged == IF ~rs.hasResult THEN padded
                ELSE IF rs.resultValues.startTime > padded.series.startTime
                THEN merge(padded.series, rs.resultValues)
                ELSE merge(rs.resultValues, padded.series)
  IN IF padded.status # "ok"
     THEN [rs EXCEPT !.status = padded.status, !.earliestData = series.startTime]
     ELSE IF merged.status # "ok"
     THEN [rs EXCEPT !.status = merged.status, !.earliestData = series.startTime]
     ELSE ReadState(rs.sliceBoundary, TRUE, merged.series, Len(merged.series.values),
                    series.startTime, "ok")

\* lines 367-420: the inner loop over slices_arr
RECURSIVE readSlicesArr(_, _, _, _, _, _)
readSlicesArr(fs, rs, arr, fromTime, untilTime, biggest) ==
  IF arr = <<>> \/ rs.status # "ok" THEN rs
  ELSE
    LET slice == Head(arr)
    IN IF fromTime >= slice[1]
       THEN \* is_last: the loop ends after this slice, or on its NoData
         LET r == CeresSlice_read(fs, slice, fromTime, untilTime)
         IN IF r.status = "NoData" THEN rs
            ELSE IF r.status # "ok" THEN [rs EXCEPT !.status = r.status]
            ELSE stitch(rs, slice, r.series, untilTime, biggest)
       ELSE IF untilTime >= slice[1]
       THEN
         LET requestUntilTime ==
               IF rs.sliceBoundary # None /\ untilTime > rs.sliceBoundary
               THEN rs.sliceBoundary ELSE untilTime
             rs1 == [rs EXCEPT !.sliceBoundary = slice[1]]
             r == CeresSlice_read(fs, slice, slice[1], requestUntilTime)
         IN IF r.status = "NoData" THEN rs1
            ELSE IF r.status # "ok" THEN [rs1 EXCEPT !.status = r.status]
            ELSE readSlicesArr(fs, stitch(rs1, slice, r.series, requestUntilTime, biggest),
                               Tail(arr), fromTime, untilTime, biggest)
       ELSE readSlicesArr(fs, [rs EXCEPT !.sliceBoundary = slice[1]],
                          Tail(arr), fromTime, untilTime, biggest)

\* lines 359-420: the outer loop; slices_arr grows by each slice that is not
\* bogus and the inner loop runs again over all of it
RECURSIVE readAllSlices(_, _, _, _, _, _, _, _)
readAllSlices(fs, rs, listed, slices_arr, mapped, fromTime, untilTime, biggest) ==
  IF listed = <<>> \/ rs.status # "ok" THEN rs
  ELSE
    LET slice_tmp == Head(listed)
        arr == IF bogus(fs, slice_tmp, mapped, fromTime, untilTime)
               THEN slices_arr ELSE Append(slices_arr, slice_tmp)
    IN readAllSlices(fs, readSlicesArr(fs, rs, arr, fromTime, untilTime, biggest),
                     Tail(listed), arr, mapped, fromTime, untilTime, biggest)

\* lines 429-433: the loop over metadata["retentions"]
RECURSIVE retentionStep(_, _, _, _, _)
retentionStep(retentions, untilTime, now, tmp, biggest) ==
  IF retentions = <<>> THEN biggest
  ELSE LET ts == Head(retentions)
           tmp1 == tmp + ts[1] * ts[2]
       IN IF untilTime > now - tmp1 THEN biggest
          ELSE retentionStep(Tail(retentions), untilTime, now, tmp1, ts[1])

\* self.timeStep after `if self.timeStep is None: self.readMetadata()`
loadedTimeStep(ts, meta) == IF ts = None THEN meta.timeStep ELSE ts

\* lines 330-448.  selfTimeStep is self.timeStep on entry (None when the handle
\* has not read its metadata, and then the local `metadata` is the file's
\* content; otherwise it stays None), `now` is what time.time() returns.
CeresNode_read(fs, cache, behavior, selfTimeStep, meta, now, fromArg, untilArg) ==
  LET step == loadedTimeStep(selfTimeStep, meta)
      fromTime == fromArg - (fromArg % step)
      untilTime == untilArg - (untilArg % step)
      listed == slices(fs, cache, behavior)
      biggest == biggestTimeStep(listed, fromTime, untilTime, 1)
      mapped == slicesMapped(listed, fromTime)
      rs == readAllSlices(fs, ReadState(None, FALSE, NoSeries, 0, None, "ok"),
                          listed, <<>>, mapped, fromTime, untilTime, biggest)
  IN IF rs.status # "ok" THEN [status |-> rs.status, series |-> NoSeries]
     ELSE IF rs.earliestData = None
     THEN
       IF biggest = 1 /\ selfTimeStep = None /\ ~meta.hasRetentions
       THEN [status |-> "KeyError", series |-> NoSeries]
       ELSE
         LET chosen == IF biggest # 1 THEN biggest
                       ELSE IF selfTimeStep # None THEN DEFAULT_TIMESTEP
                       ELSE retentionStep(meta.retentions, untilTime, now, 0, meta.timeStep)
             missing == (untilTime - fromTime) \div chosen
         IN [status |-> "ok",
             series |-> TimeSeriesData(fromTime, untilTime, chosen, Repeat(None, missing))]
     ELSE
       LET leftMissing == (rs.earliestData - fromTime) \div biggest
           leftNulls == TimeSeriesData(fromTime, fromTime + leftMissing, biggest,
                                       Repeat(None, leftMissing))
       IN add(leftNulls, rs.resultValues)

(***************************************************************************)
(* CeresSlice.deleteBefore, with the node's sliceCache it clears.          *)
(***************************************************************************)
\* CeresSlice.deleteBefore without lines 658-659, which round t up to the step
CeresSlice_deleteBefore_unrounded(fs, cache, slice, tArg) ==
  IF ~exists(fs, slice) THEN [fs |-> fs, cache |-> cache, status |-> "SliceDeleted"]
  ELSE
    LET t == tArg
        timeOffset == t - slice[1]
        byteOffset == ByteOffset(slice, t)
        tailSize == Max(0, getsize(fs, slice) - byteOffset)
        fileData == Drop(fs[slice].data, byteOffset \div DATAPOINT_SIZE)
    IN IF timeOffset < 0 \/ byteOffset = 0
       THEN [fs |-> fs, cache |-> cache, status |-> "ok"]
       ELSE IF tailSize > 0
       THEN [fs |-> PutFile(RemoveFile(fs, slice), <<t, slice[2]>>,
                            [size |-> tailSize, data |-> fileData]),
             cache |-> <<>>, status |-> "ok"]
       ELSE [fs |-> RemoveFile(fs, slice), cache |-> <<>>, status |-> "SliceDeleted"]

\* CeresSlice.deleteBefore without line 669, which clears the node's sliceCache
CeresSlice_deleteBefore_keepsCache(fs, cache, slice, tArg) ==
  IF ~exists(fs, slice) THEN [fs |-> fs, cache |-> cache, status |-> "SliceDeleted"]
  ELSE
    LET t == IF tArg % slice[2] # 0 THEN tArg - (tArg % slice[2]) + slice[2] ELSE tArg
        timeOffset == t - slice[1]
        byteOffset == ByteOffset(slice, t)
        \* fileHandle.seek(byteOffset); fileData = fileHandle.read()
        tailSize == Max(0, getsize(fs, slice) - byteOffset)
        fileData == Drop(fs[slice].data, byteOffset \div DATAPOINT_SIZE)
    IN IF timeOffset < 0 \/ byteOffset = 0
       THEN [fs |-> fs, cache |-> cache, status |-> "ok"]
       ELSE IF tailSize > 0
       THEN \* rewritten from offset 0, truncated, renamed (onto any file of that name)
            [fs |-> PutFile(RemoveFile(fs, slice), <<t, slice[2]>>,
                            [size |-> tailSize, data |-> fileData]),
             cache |-> cache, status |-> "ok"]
       ELSE [fs |-> RemoveFile(fs, slice), cache |-> cache, status |-> "SliceDeleted"]

CeresSlice_deleteBefore(fs, cache, slice, tArg) ==
  IF ~exists(fs, slice) THEN [fs |-> fs, cache |-> cache, status |-> "SliceDeleted"]
  ELSE
    LET t == IF tArg % slice[2] # 0 THEN tArg - (tArg % slice[2]) + slice[2] ELSE tArg
        timeOffset == t - slice[1]
        byteOffset == ByteOffset(slice, t)
        \* fileHandle.seek(byteOffset); fileData = fileHandle.read()
        tailSize == Max(0, getsize(fs, slice) - byteOffset)
        fileData == Drop(fs[slice].data, byteOffset \div DATAPOINT_SIZE)
    IN IF timeOffset < 0 \/ byteOffset = 0
       THEN [fs |-> fs, cache |-> cache, status |-> "ok"]
       ELSE IF tailSize > 0
       THEN \* rewritten from offset 0, truncated, renamed (onto any file of that name)
            [fs |-> PutFile(RemoveFile(fs, slice), <<t, slice[2]>>,
                            [size |-> tailSize, data |-> fileData]),
             cache |-> <<>>, status |-> "ok"]
       ELSE [fs |-> RemoveFile(fs, slice), cache |-> <<>>, status |-> "SliceDeleted"]

(***************************************************************************)
(* What the callers of the model pass in.                                  *)
(***************************************************************************)
\* the timeStep of the node's metadata
NodeStep == DEFAULT_TIMESTEP
\* the steps a caller writes at: two adjacent ones, and three that lie around
\* MAX_SLICE_GAP steps after them
StepChoices == {1, 2, MAX_SLICE_GAP + 2, MAX_SLICE_GAP + 3, MAX_SLICE_GAP + 4}
AlignedTimes == {k * NodeStep : k \in StepChoices}
\* the timestamps a caller writes: those, and one that is not step-aligned
TimeChoices == AlignedTimes \cup {NodeStep + NodeStep \div 2}
\* datapoint values (doubles), all even
Values == {2, 4}
\* ascending timestamps, at most MaxPoints of them
TimestampLists ==
  {ts \in UNION {[1..n -> TimeChoices] : n \in 0..MaxPoints} :
     \A i \in 1..(Len(ts) - 1) : ts[i] < ts[i + 1]}
\* the datapoints at these timestamps with values v, v+2, v+4, ...
Ramp(ts, v) == [i \in 1..Len(ts) |-> <<ts[i], v + 2 * (i - 1)>>]
DatapointLists == {Ramp(ts, v) : ts \in TimestampLists, v \in Values}
\* the writes of at most one point
PointLists == {datapoints \in DatapointLists : Len(datapoints) <= 1}

\* Node.read(from, until) requests
ReadFrom == {0} \cup TimeChoices
ReadUntil == {NodeStep} \cup {t + NodeStep : t \in AlignedTimes}
ReadRequests == {r \in ReadFrom \X ReadUntil : r[1] <= r[2]}

\* hasDataForInterval(from, until) requests; None and 0 leave a side open
IntervalTimes == {None, 0} \cup {k * NodeStep : k \in {1, 3, 4, MAX_SLICE_GAP + 4, MAX_SLICE_GAP + 5}}
IntervalRequests ==
  {r \in IntervalTimes \X IntervalTimes : r[1] <= 0 \/ r[2] <= 0 \/ r[1] < r[2]}

(***************************************************************************)
(* The node and its operations.                                            *)
(***************************************************************************)
\* what `last` records: the operation, its arguments, the datapoints written
\* (for a query: those of the write it follows, if it follows one), how the
\* call ended, and the series or truth value it returned
Call(op, args, datapoints, status, series, answer) ==
  [op |-> op, args |-> args, datapoints |-> datapoints, status |-> status,
   series |-> series, answer |-> answer]

Queries == {"read", "hasDataForInterval", "slice.read"}

\* A query changes nothing but `last`, so what can follow it is what can follow
\* the state it was asked in: the model asks one query and goes no further.
Quiet == last.op \notin Queries

justWritten == IF last.op = "write" /\ last.status = "ok" THEN last.datapoints ELSE <<>>

\* The processes that call Node.write step by step, and one of them before its
\* call: where it is in write, the datapoints, the stack `sequences`, the
\* sequence popped, needsEarlierSlice, the entries of it still to be created,
\* the slice and sequence of the Slice.write (or create) in progress, the
\* branch that called it, the file size its getsize has returned, how the
\* call ended, and how many times it has called itself again.
Writers == {1, 2}
Idle ==
  [pc |-> "idle", datapoints |-> <<>>, sequences |-> <<>>, sequence |-> <<>>,
   needsEarlierSlice |-> <<>>, earlier |-> <<>>, slice |-> <<>>, payload |-> <<>>,
   branch |-> "", filesize |-> 0, status |-> "ok", retries |-> 0]

\* CeresNode.create(tree, nodePath): the metadata is {timeStep: DEFAULT_TIMESTEP},
\* the handle knows its timeStep, there is no slice and no cache
Init ==
  /\ files = <<>>
  /\ metadata = [timeStep |-> NodeStep, retentions |-> <<>>, hasRetentions |-> FALSE]
  /\ timeStep = NodeStep
  /\ sliceCache = <<>>
  /\ sliceCachingBehavior = "none"
  /\ opCount = 0
  /\ handle = <<>>
  /\ writers = [w \in Writers |-> Idle]
  /\ last = Call("create", <<>>, <<>>, "ok", NoSeries, FALSE)

\* node.write(datapoints)
Write(datapoints) ==
  /\ Quiet
  /\ opCount < MaxOps
  /\ \E r \in {CeresNode_write([fs |-> files, cache |-> sliceCache, log |-> <<>>],
                               sliceCachingBehavior,
                               loadedTimeStep(timeStep, metadata), datapoints)} :
       /\ files' = r.st.fs
       /\ sliceCache' = r.st.cache
       /\ last' = Call("write", <<>>, datapoints, r.status, NoSeries, FALSE)
  /\ timeStep' = loadedTimeStep(timeStep, metadata)
  /\ opCount' = opCount + 1
  /\ UNCHANGED <<handle, writers, metadata, sliceCachingBehavior>>

\* node.read(fromTime, untilTime), time.time() being `now`
Read(fromTime, untilTime, now) ==
  /\ Quiet
  /\ \E r \in {CeresNode_read(files, sliceCache, sliceCachingBehavior, timeStep,
                              metadata, now, fromTime, untilTime)} :
       last' = Call("read", <<fromTime, untilTime>>, justWritten, r.status, r.series, FALSE)
  /\ timeStep' = loadedTimeStep(timeStep, metadata)
  /\ sliceCache' = cacheAfterSlices(files, sliceCache, sliceCachingBehavior)
  /\ UNCHANGED <<handle, writers, files, metadata, sliceCachingBehavior, opCount>>

\* node.hasDataForInterval(fromTime, untilTime)
HasDataForInterval(fromTime, untilTime) ==
  /\ Quiet
  /\ last' = Call("hasDataForInterval", <<fromTime, untilTime>>, justWritten, "ok", NoSeries,
                  hasDataForInterval(files, sliceCache, sliceCachingBehavior,
                                     fromTime, untilTime))
  /\ sliceCache' = cacheAfterSlices(files, sliceCache, sliceCachingBehavior)
  /\ UNCHANGED <<handle, writers, files, timeStep, metadata, sliceCachingBehavior, opCount>>

\* time.time() at a read; it matters only to the retentions of the metadata
Now == (MAX_SLICE_GAP + 10) * NodeStep

Next ==
  \/ \E datapoints \in DatapointLists : Write(datapoints)
  \/ \E r \in ReadRequests : Read(r[1], r[2], Now)
  \/ \E r \in IntervalRequests : HasDataForInterval(r[1], r[2])

Spec == Init /\ [][Next]_vars

NextWrite == \E datapoints \in DatapointLists : Write(datapoints)

\* Node.write calls alone
SpecWrite == Init /\ [][NextWrite]_vars

(***************************************************************************)
(* The operations of one slice, called on a slice the node lists.          *)
(***************************************************************************)
\* slice.deleteBefore(t)
DeleteBefore(slice, t) ==
  /\ Quiet
  /\ opCount < MaxOps
  /\ exists(files, slice)
  /\ \E r \in {CeresSlice_deleteBefore(files, sliceCache, slice, t)} :
       /\ files' = r.fs
       /\ sliceCache' = r.cache
       /\ last' = Call("deleteBefore", <<slice[1], slice[2], t>>, <<>>, r.status, NoSeries, FALSE)
  /\ opCount' = opCount + 1
  /\ UNCHANGED <<handle, writers, timeStep, metadata, sliceCachingBehavior>>

\* slice.write(sequence)
SliceWrite(slice, sequence) ==
  /\ Quiet
  /\ opCount < MaxOps
  /\ exists(files, slice)
  /\ \E r \in {CeresSlice_write(files, slice, sequence)} :
       /\ files' = r.fs
       /\ last' = Call("slice.write", slice, sequence, r.status, NoSeries, FALSE)
  /\ opCount' = opCount + 1
  /\ UNCHANGED <<handle, writers, timeStep, metadata, sliceCache, sliceCachingBehavior>>

\* slice.read(fromTime, untilTime)
SliceRead(slice, fromTime, untilTime) ==
  /\ Quiet
  /\ exists(files, slice)
  /\ \E r \in {CeresSlice_read(files, slice, fromTime, untilTime)} :
       last' = Call("slice.read", <<slice[1], slice[2], fromTime, untilTime>>, <<>>,
                    r.status, r.series, FALSE)
  /\ UNCHANGED <<handle, writers, files, timeStep, metadata, sliceCache, sliceCachingBehavior, opCount>>

\* deleteBefore(t): the timestamps of the writes, and one more off the step
DeleteTimes == TimeChoices \cup {2 * NodeStep + NodeStep \div 2}

NextDelete ==
  \/ \E datapoints \in DatapointLists : Write(datapoints)
  \/ \E slice \in DOMAIN files : \E t \in DeleteTimes : DeleteBefore(slice, t)

\* Node.write and Slice.deleteBefore in any order
SpecDelete == Init /\ [][NextDelete]_vars

\* slice.write(sequence): runs of 1..MaxPoints points one step apart
SliceSequences ==
  {Ramp([i \in 1..n |-> t + (i - 1) * NodeStep], v) :
     t \in AlignedTimes, n \in 1..MaxPoints, v \in Values}

\* slice.read(from, until), relative to the slice: from one step before its
\* start to its end, until from one step before `from` to far behind it
SliceReadRequests(slice) ==
  {<<f, f + d * slice[2]>> :
     f \in {slice[1] - slice[2], slice[1], slice[1] + slice[2], endTime(files, slice)},
     d \in {-1, 0, 1, 2, MAX_SLICE_GAP + 3}}

NextSliceWrite ==
  \/ \E datapoints \in PointLists : Write(datapoints)
  \/ \E slice \in DOMAIN files : \E sequence \in SliceSequences : SliceWrite(slice, sequence)

\* Node.write of single points, and Slice.write of runs into the slices
SpecSliceWrite == Init /\ [][NextSliceWrite]_vars

NextSlice ==
  \/ \E datapoints \in DatapointLists : Write(datapoints)
  \/ \E slice \in DOMAIN files : \E sequence \in SliceSequences : SliceWrite(slice, sequence)
  \/ \E slice \in DOMAIN files : \E r \in SliceReadRequests(slice) : SliceRead(slice, r[1], r[2])

\* Node.write, and the slices' own write and read
SpecSlice == Init /\ [][NextSlice]_vars

(***************************************************************************)
(* A CeresSlice object the caller keeps: `handle` is its (startTime,       *)
(* timeStep), from which its fsPath was built, or <<>> when none is kept.  *)
(***************************************************************************)
\* one of the objects node.slices yields
TakeSlice(slice) ==
  /\ Quiet
  /\ handle = <<>>
  /\ exists(files, slice)
  /\ handle' = slice
  /\ last' = Call("slices", slice, <<>>, "ok", NoSeries, FALSE)
  /\ UNCHANGED <<files, timeStep, metadata, sliceCache, sliceCachingBehavior, opCount, writers>>

\* handle.deleteBefore(t): the method assigns neither self.startTime nor
\* self.fsPath
HandleDeleteBefore(t) ==
  /\ Quiet
  /\ opCount < MaxOps
  /\ handle # <<>>
  /\ \E r \in {CeresSlice_deleteBefore(files, sliceCache, handle, t)} :
       /\ files' = r.fs
       /\ sliceCache' = r.cache
       /\ last' = Call("handle.deleteBefore", <<handle[1], handle[2], t>>, <<>>, r.status,
                       NoSeries, FALSE)
  /\ opCount' = opCount + 1
  /\ UNCHANGED <<handle, timeStep, metadata, sliceCachingBehavior, writers>>

\* handle.write(sequence)
HandleWrite(sequence) ==
  /\ Quiet
  /\ opCount < MaxOps + 1
  /\ last.op = "handle.deleteBefore"
  /\ \E r \in {CeresSlice_write(files, handle, sequence)} :
       /\ files' = r.fs
       /\ last' = Call("handle.write", handle, sequence, r.status, NoSeries, FALSE)
  /\ opCount' = opCount + 1
  /\ UNCHANGED <<handle, timeStep, metadata, sliceCache, sliceCachingBehavior, writers>>

NextHandle ==
  \/ \E datapoints \in DatapointLists : Write(datapoints)
  \/ \E slice \in DOMAIN files : TakeSlice(slice)
  \/ \E t \in DeleteTimes : HandleDeleteBefore(t)
  \/ \E sequence \in SliceSequences : HandleWrite(sequence)

\* Node.write, and deleteBefore and write through a slice object that is kept
SpecHandle == Init /\ [][NextHandle]_vars

(***************************************************************************)
(* TimeSeriesData.merge on its own: the two series are drawn at Init.      *)
(***************************************************************************)
\* the values of a series: doubles and None
SeriesValues == Values \cup {None}
SeriesLists == UNION {[1..n -> SeriesValues] : n \in 0..MaxPoints}
\* the series Slice.read and Node.read build: endTime is startTime plus one
\* step for each value
SeriesAt(startTimes, steps) ==
  {TimeSeriesData(start, start + Len(values) * step, step, values) :
     start \in startTimes, step \in steps, values \in SeriesLists}
\* self starts on a step boundary and other does not start before self
MergePairs ==
  {pair \in SeriesAt({0, NodeStep}, {NodeStep})
            \X SeriesAt({k * NodeStep : k \in 0..4} \cup {NodeStep + NodeStep \div 2},
                        {NodeStep, 2 * NodeStep}) :
     pair[2].startTime >= pair[1].startTime}

InitMerge ==
  /\ files = <<>>
  /\ metadata = [timeStep |-> NodeStep, retentions |-> <<>>, hasRetentions |-> FALSE]
  /\ timeStep = NodeStep
  /\ sliceCache = <<>>
  /\ sliceCachingBehavior = "none"
  /\ opCount = 0
  /\ handle = <<>>
  /\ writers = [w \in Writers |-> Idle]
  /\ \E pair \in MergePairs :
       last = Call("TimeSeriesData", pair, <<>>, "ok", NoSeries, FALSE)

\* self.merge(other); last.series is self after the call
Merge ==
  /\ last.op = "TimeSeriesData"
  /\ \E r \in {merge(last.args[1], last.args[2])} :
       last' = Call("merge", last.args, <<>>, r.status, r.series, FALSE)
  /\ UNCHANGED <<files, timeStep, metadata, sliceCache, sliceCachingBehavior, opCount,
                 handle, writers>>

SpecMerge == InitMerge /\ [][Merge]_vars

(***************************************************************************)
(* CeresNode.compact on its own: the datapoint list is drawn at Init.      *)
(***************************************************************************)
\* timestamps on and off the step, next to each other and apart
CompactTimes == {0, NodeStep \div 2, NodeStep, NodeStep + NodeStep \div 2, 2 * NodeStep,
                 4 * NodeStep}
\* the lists a caller passes, in any order, values missing or not
CompactLists ==
  UNION {[1..n -> CompactTimes \X SeriesValues] : n \in 0..(MaxPoints + 1)}

InitCompact ==
  /\ files = <<>>
  /\ metadata = [timeStep |-> NodeStep, retentions |-> <<>>, hasRetentions |-> FALSE]
  /\ timeStep = NodeStep
  /\ sliceCache = <<>>
  /\ sliceCachingBehavior = "none"
  /\ opCount = 0
  /\ handle = <<>>
  /\ writers = [w \in Writers |-> Idle]
  /\ \E datapoints \in CompactLists :
       last = Call("datapoints", <<>>, datapoints, "ok", NoSeries, FALSE)

\* node.compact(datapoints); last.answer is the list of sequences returned
Compact ==
  /\ last.op = "datapoints"
  /\ last' = Call("compact", <<>>, last.datapoints, "ok", NoSeries,
                  compact(last.datapoints, timeStep))
  /\ UNCHANGED <<files, timeStep, metadata, sliceCache, sliceCachingBehavior, opCount,
                 handle, writers>>

SpecCompact == InitCompact /\ [][Compact]_vars

(***************************************************************************)
(* Node.write one filesystem operation at a time.  A writer is at "loop"   *)
(* (about to pop a sequence and list the slices), "stat" (Slice.write has  *)
(* computed its offsets and is about to call getsize), "io" (about to      *)
(* open, seek and write), "create" (about to open a new slice file with    *)
(* 'wb'), or "done" (the call has returned or raised: status).             *)
(***************************************************************************)
\* lines 468-509 without the Slice.write calls: which slice of the listing the
\* sequence goes to and in which branch ("owning", "straddle"), or "end" when
\* the loop runs out of slices
RECURSIVE dispatch(_, _, _, _, _, _)
dispatch(rest, step, sequence, needsEarlierSlice, sliceBoundary, slicesExist) ==
  IF rest = <<>>
  THEN [kind |-> "end", slice |-> <<>>, payload |-> <<>>, leftover |-> <<>>,
        needsEarlierSlice |-> needsEarlierSlice, slicesExist |-> slicesExist]
  ELSE
    LET slice == Head(rest)
        timestamps == timestampsOf(sequence)
        beginningTime == timestamps[1]
        endingTime == timestamps[Len(timestamps)]
    IN IF slice[2] # step
       THEN dispatch(Tail(rest), step, sequence, needsEarlierSlice, sliceBoundary,
                     slicesExist)
       ELSE IF beginningTime >= slice[1]
       THEN [kind |-> "owning", slice |-> slice,
             payload |-> IF sliceBoundary = None THEN sequence
                         ELSE Take(sequence, bisect_left(timestamps, sliceBoundary)),
             leftover |-> <<>>,
             needsEarlierSlice |-> needsEarlierSlice, slicesExist |-> TRUE]
       ELSE IF endingTime >= slice[1]
       THEN [kind |-> "straddle", slice |-> slice,
             payload |-> Drop(sequence, bisect_left(timestamps, slice[1])),
             leftover |-> Take(sequence, bisect_left(timestamps, slice[1])),
             needsEarlierSlice |-> needsEarlierSlice, slicesExist |-> TRUE]
       ELSE dispatch(Tail(rest), step, sequence, Append(needsEarlierSlice, sequence),
                     slice[1], TRUE)

\* lines 516-517: the next entry of the final loop, or the return
startEarlier(rec, step, entries) ==
  IF entries = <<>> THEN [rec EXCEPT !.pc = "done", !.earlier = <<>>]
  ELSE IF Head(entries) = <<>>
  THEN [rec EXCEPT !.pc = "done", !.status = "IndexError"]
  ELSE [rec EXCEPT !.pc = "create", !.earlier = Tail(entries),
                   !.slice = <<Head(entries)[1][1], step>>,
                   !.payload = Head(entries), !.branch = "earlier"]

\* line 460: the while test after a break or a for loop that ran out
continue(rec, step) ==
  IF rec.sequences = <<>> THEN startEarlier(rec, step, rec.needsEarlierSlice)
  ELSE [rec EXCEPT !.pc = "loop"]

\* lines 450-458, and the call of line 491 with its retries counted
entered(datapoints, step, retries) ==
  IF datapoints = <<>> THEN [Idle EXCEPT !.pc = "done", !.retries = retries]
  ELSE continue([Idle EXCEPT !.datapoints = datapoints,
                             !.sequences = compact(datapoints, step),
                             !.retries = retries], step)

\* an exception leaves Node.write
raised(rec, exception) == [rec EXCEPT !.pc = "done", !.status = exception]

\* writer w calls node.write(datapoints)
Begin(w, datapoints) ==
  /\ Quiet
  /\ writers[w].pc = "idle"
  /\ writers' = [writers EXCEPT
                   ![w] = entered(datapoints, loadedTimeStep(timeStep, metadata), 0)]
  /\ timeStep' = loadedTimeStep(timeStep, metadata)
  /\ UNCHANGED <<files, metadata, sliceCache, sliceCachingBehavior, opCount, last, handle>>

\* lines 461-514: pop a sequence, list the slices (readSlices) and walk the
\* listing up to the Slice.write
ListSlices(w) ==
  /\ writers[w].pc = "loop"
  /\ LET rec == writers[w]
         sequence == rec.sequences[Len(rec.sequences)]
         popped == Take(rec.sequences, Len(rec.sequences) - 1)
         d == dispatch(slices(files, sliceCache, sliceCachingBehavior), timeStep,
                       sequence, rec.needsEarlierSlice, None, FALSE)
     IN writers' = [writers EXCEPT ![w] =
          IF d.kind = "end"
          THEN IF ~d.slicesExist
               THEN startEarlier([rec EXCEPT !.sequence = sequence], timeStep,
                                 Append(popped, sequence))
               ELSE continue([rec EXCEPT !.sequence = sequence, !.sequences = popped,
                                         !.needsEarlierSlice = d.needsEarlierSlice],
                             timeStep)
          ELSE [rec EXCEPT !.pc = "stat", !.sequence = sequence,
                           !.sequences = IF d.kind = "straddle"
                                         THEN Append(popped, d.leftover) ELSE popped,
                           !.needsEarlierSlice = d.needsEarlierSlice,
                           !.slice = d.slice, !.payload = d.payload,
                           !.branch = d.kind]]
  /\ sliceCache' = cacheAfterSlices(files, sliceCache, sliceCachingBehavior)
  /\ UNCHANGED <<files, timeStep, metadata, sliceCachingBehavior, opCount, last, handle>>

\* lines 619-640 of Slice.write: getsize and the gap test, with the handlers
\* of lines 485-492 when the owning branch made the call
Stat(w) ==
  /\ writers[w].pc = "stat"
  /\ LET rec == writers[w]
         byteGap == ByteOffset(rec.slice, rec.payload[1][1]) - getsize(files, rec.slice)
     IN /\ writers' = [writers EXCEPT ![w] =
             IF rec.payload = <<>> THEN raised(rec, "IndexError")
             ELSE IF ~exists(files, rec.slice)
             THEN IF rec.branch = "owning"
                  THEN entered(rec.datapoints, timeStep, rec.retries + 1)
                  ELSE raised(rec, "SliceDeleted")
             ELSE IF byteGap > 0 /\ byteGap \div DATAPOINT_SIZE > MAX_SLICE_GAP
             THEN IF rec.branch = "owning"
                  THEN [rec EXCEPT !.pc = "create", !.branch = "gap",
                                   !.slice = <<rec.sequence[1][1], rec.slice[2]>>]
                  ELSE raised(rec, "SliceGapTooLarge")
             ELSE [rec EXCEPT !.pc = "io", !.filesize = getsize(files, rec.slice)]]
        /\ sliceCache' = IF rec.payload # <<>> /\ ~exists(files, rec.slice)
                            /\ rec.branch = "owning"
                         THEN <<>> ELSE sliceCache
  /\ UNCHANGED <<files, timeStep, metadata, sliceCachingBehavior, opCount, last, handle>>

\* lines 636-652 of Slice.write: open 'r+b', seek and write with the offsets
\* computed from the size getsize returned, then what follows the call in
\* Node.write (lines 488, 494, 504, 519)
OpenSeekWrite(w) ==
  /\ writers[w].pc = "io"
  /\ LET rec == writers[w]
         byteOffset == ByteOffset(rec.slice, rec.payload[1][1])
         byteGap == byteOffset - rec.filesize
         packedValues == IF byteGap > 0
                         THEN Repeat(NAN, byteGap \div DATAPOINT_SIZE)
                                \o valuesOf(rec.payload)
                         ELSE valuesOf(rec.payload)
         seekTo == IF byteGap > 0 THEN byteOffset - byteGap ELSE byteOffset
     IN IF ~exists(files, rec.slice) \/ seekTo < 0
        THEN /\ writers' = [writers EXCEPT ![w] = raised(rec, "IOError")]
             /\ UNCHANGED <<files, sliceCache>>
        ELSE /\ files' = PutFile(files, rec.slice,
                                 SeekWrite(files[rec.slice], seekTo, packedValues))
             /\ writers' = [writers EXCEPT ![w] =
                  IF rec.branch = "earlier" THEN startEarlier(rec, timeStep, rec.earlier)
                  ELSE continue(rec, timeStep)]
             /\ sliceCache' = IF rec.branch \in {"gap", "earlier"} THEN <<>> ELSE sliceCache
  /\ UNCHANGED <<timeStep, metadata, sliceCachingBehavior, opCount, last, handle>>

\* CeresSlice.create from lines 486 and 517: open(fsPath, 'wb') makes the
\* file, or empties it when it is there
Create(w) ==
  /\ writers[w].pc = "create"
  /\ files' = CeresSlice_create(files, writers[w].slice[1], writers[w].slice[2])
  /\ writers' = [writers EXCEPT ![w].pc = "stat"]
  /\ UNCHANGED <<timeStep, metadata, sliceCache, sliceCachingBehavior, opCount, last, handle>>

\* the runs two writers write: writer 1 the values 2, 4 and writer 2 the
\* values 6, 8, at timestamps on the step
RaceTimes == {NodeStep, 2 * NodeStep, 3 * NodeStep}
RaceLists(w) ==
  {Ramp(ts, 2 + 4 * (w - 1)) :
     ts \in {l \in UNION {[1..n -> RaceTimes] : n \in 1..MaxPoints} :
               \A i \in 1..(Len(l) - 1) : l[i] < l[i + 1]}}

NextRace ==
  \/ \E w \in Writers : \E datapoints \in RaceLists(w) : Begin(w, datapoints)
  \/ \E w \in Writers : ListSlices(w)
  \/ \E w \in Writers : Stat(w)
  \/ \E w \in Writers : OpenSeekWrite(w)
  \/ \E w \in Writers : Create(w)

\* two Node.write calls on one node, interleaved at every filesystem operation
SpecRace == Init /\ [][NextRace]_vars

(***************************************************************************)
(* Nodes whose timeStep is changed between writes, so that slices of       *)
(* different steps stand side by side.                                     *)
(***************************************************************************)
NodeSteps == {NodeStep, 2 * NodeStep}

\* node.writeMetadata(metadata) with the timeStep changed
WriteMetadata(step) ==
  /\ Quiet
  /\ step # loadedTimeStep(timeStep, metadata)
  /\ timeStep' = step
  /\ metadata' = [metadata EXCEPT !.timeStep = step]
  /\ last' = Call("writeMetadata", <<step>>, <<>>, "ok", NoSeries, FALSE)
  /\ UNCHANGED <<files, sliceCache, sliceCachingBehavior, opCount, handle, writers>>

\* read requests on a boundary of both steps, around and between the slices
StepReadRequests ==
  {r \in {0, 2 * NodeStep, 4 * NodeStep, (MAX_SLICE_GAP) * NodeStep,
          (MAX_SLICE_GAP + 2) * NodeStep}
         \X {4 * NodeStep, (MAX_SLICE_GAP + 2) * NodeStep, (MAX_SLICE_GAP + 4) * NodeStep,
             (MAX_SLICE_GAP + 6) * NodeStep} :
     r[1] < r[2]}

NextSteps ==
  \/ \E datapoints \in PointLists : Write(datapoints)
  \/ \E step \in NodeSteps : WriteMetadata(step)
  \/ \E r \in StepReadRequests : Read(r[1], r[2], Now)

SpecSteps == Init /\ [][NextSteps]_vars

(***************************************************************************)
(* One Node.write, a filesystem operation at a time, while another process *)
(* calls deleteBefore on the node's slices between any two of them.        *)
(***************************************************************************)
\* the files one earlier Node.write has left on an empty node
SeededFiles ==
  {CeresNode_write([fs |-> <<>>, cache |-> <<>>, log |-> <<>>], "none", NodeStep,
                   datapoints).st.fs :
     datapoints \in {d \in DatapointLists : d # <<>> /\ d[1][2] = 4}}

InitDeleted ==
  /\ files \in SeededFiles
  /\ metadata = [timeStep |-> NodeStep, retentions |-> <<>>, hasRetentions |-> FALSE]
  /\ timeStep = NodeStep
  /\ sliceCache = <<>>
  /\ sliceCachingBehavior = "none"
  /\ opCount = 0
  /\ handle = <<>>
  /\ writers = [w \in Writers |-> Idle]
  /\ last = Call("create", <<>>, <<>>, "ok", NoSeries, FALSE)

\* what the writer writes
DeletedLists == {d \in DatapointLists : d # <<>> /\ d[1][2] = 2}

NextDeleted ==
  \/ \E datapoints \in DeletedLists : Begin(1, datapoints)
  \/ ListSlices(1)
  \/ Stat(1)
  \/ OpenSeekWrite(1)
  \/ Create(1)
  \/ \E slice \in DOMAIN files : \E t \in DeleteTimes : DeleteBefore(slice, t)

SpecDeleted == InitDeleted /\ [][NextDeleted]_vars

(***************************************************************************)
(* One actor that writes, deletes, and changes and clears the slice cache. *)
(***************************************************************************)
CachingBehaviors == {"none", "all", "latest"}

\* node.setSliceCachingBehavior(behavior)
SetSliceCachingBehavior(behavior) ==
  /\ Quiet
  /\ sliceCachingBehavior' = behavior
  /\ sliceCache' = <<>>
  /\ last' = Call("setSliceCachingBehavior", <<behavior>>, <<>>, "ok", NoSeries, FALSE)
  /\ UNCHANGED <<files, timeStep, metadata, opCount, handle, writers>>

\* node.clearSliceCache()
ClearSliceCache ==
  /\ Quiet
  /\ sliceCache' = <<>>
  /\ last' = Call("clearSliceCache", <<>>, <<>>, "ok", NoSeries, FALSE)
  /\ UNCHANGED <<files, timeStep, metadata, sliceCachingBehavior, opCount, handle, writers>>

\* list(node.slices): last.args is the list the property yields
Slices ==
  /\ Quiet
  /\ sliceCache' = cacheAfterSlices(files, sliceCache, sliceCachingBehavior)
  /\ last' = Call("slices", slices(files, sliceCache, sliceCachingBehavior), <<>>, "ok",
                  NoSeries, FALSE)
  /\ UNCHANGED <<files, timeStep, metadata, sliceCachingBehavior, opCount, handle, writers>>

\* what the actor writes: every list of timestamps, with one choice of values
CacheLists == {d \in DatapointLists : d # <<>> /\ d[1][2] = 2}

NextCache ==
  \/ \E datapoints \in CacheLists : Write(datapoints)
  \/ \E slice \in DOMAIN files : \E t \in DeleteTimes : DeleteBefore(slice, t)
  \/ ClearSliceCache
  \/ \E behavior \in CachingBehaviors : SetSliceCachingBehavior(behavior)
  \/ Slices

SpecCache == Init /\ [][NextCache]_vars

(***************************************************************************)
(* Writes on a node whose timeStep changes, without reads.                 *)
(***************************************************************************)
NextStepsWrite ==
  \/ \E datapoints \in CacheLists : Write(datapoints)
  \/ \E step \in NodeSteps : WriteMetadata(step)

SpecStepsWrite == Init /\ [][NextStepsWrite]_vars

(***************************************************************************)
(* Nodes with and without `retentions` in their metadata, read through the *)
(* handle that created them or through a new one.                          *)
(***************************************************************************)
\* the retentions a node is created with: (step, points) pairs
Retentions == <<<<NodeStep, 2>>, <<2 * NodeStep, 10>>>>

\* CeresNode.create(tree, nodePath) and
\* CeresNode.create(tree, nodePath, retentions = Retentions)
InitMeta ==
  /\ files = <<>>
  /\ metadata \in {[timeStep |-> NodeStep, retentions |-> <<>>, hasRetentions |-> FALSE],
                   [timeStep |-> NodeStep, retentions |-> Retentions, hasRetentions |-> TRUE]}
  /\ timeStep = NodeStep
  /\ sliceCache = <<>>
  /\ sliceCachingBehavior = "none"
  /\ opCount = 0
  /\ handle = <<>>
  /\ writers = [w \in Writers |-> Idle]
  /\ last = Call("create", <<>>, <<>>, "ok", NoSeries, FALSE)

\* tree.getNode(nodePath) of a tree that has not cached the node: a new
\* CeresNode, which has not read its metadata
GetNode ==
  /\ Quiet
  /\ timeStep # None
  /\ timeStep' = None
  /\ sliceCache' = <<>>
  /\ sliceCachingBehavior' = "none"
  /\ last' = Call("getNode", <<>>, <<>>, "ok", NoSeries, FALSE)
  /\ UNCHANGED <<handle, writers, files, metadata, opCount>>

NextMeta ==
  \/ \E datapoints \in PointLists : Write(datapoints)
  \/ GetNode
  \/ \E r \in ReadRequests : Read(r[1], r[2], Now)

SpecMeta == InitMeta /\ [][NextMeta]_vars

(***************************************************************************)
(* Properties of Node.write (SpecWrite), Node.read and hasDataForInterval   *)
(* (Spec).                                                                 *)
(***************************************************************************)
\* every file holds size / DATAPOINT_SIZE doubles; no call of the node's own
\* operations fails inside TimeSeriesData.merge
TypeOK ==
  /\ \A s \in DOMAIN files : files[s].size = Len(files[s].data) * DATAPOINT_SIZE

stepAligned(datapoints) == \A i \in 1..Len(datapoints) : datapoints[i][1] % NodeStep = 0

\* the state after write(D); read(t0, tN + step), D strictly increasing and
\* step-aligned
RoundTripRead ==
  /\ last.op = "read"
  /\ last.datapoints # <<>>
  /\ stepAligned(last.datapoints)
  /\ last.args = <<last.datapoints[1][1],
                   last.datapoints[Len(last.datapoints)][1] + NodeStep>>

\* C1: after Node.write of a strictly increasing, step-aligned sequence
\* (t0,v0)..(tN,vN), in any state earlier writes have left, Node.read(t0,
\* tN+step) returns a series that starts at t0, has the node's timeStep and
\* holds vi at the position of every ti (so a missing value stands only at a
\* position that was not written).
C1_RoundTrip ==
  RoundTripRead =>
    /\ last.status = "ok"
    /\ last.series.startTime = last.datapoints[1][1]
    /\ last.series.timeStep = NodeStep
    /\ \A i \in 1..Len(last.datapoints) :
         LET position == (last.datapoints[i][1] - last.series.startTime) \div NodeStep + 1
         IN /\ position <= Len(last.series.values)
            /\ last.series.values[position] = last.datapoints[i][2]

\* the node's only slice ends with a point at time t
onlySliceEndsAt(t) ==
  /\ Cardinality(DOMAIN files) = 1
  /\ \E s \in DOMAIN files :
       /\ files[s].data # <<>>
       /\ endTime(files, s) = t + s[2]
       /\ files[s].data[Len(files[s].data)] # NAN

\* the step is a Node.write of the single point (t + k * step, v), and it
\* stored the point in the one slice there was
storedInSameSlice(t, k) ==
  /\ DOMAIN files' = DOMAIN files
  /\ \A s \in DOMAIN files :
       LET position == (t + k * NodeStep - s[1]) \div NodeStep + 1
       IN /\ Len(files'[s].data) = position
          /\ files'[s].data[position] = last'.datapoints[1][2]

\* ... it left two slices, the second one starting at the point
storedInSecondSlice(t, k) ==
  /\ Cardinality(DOMAIN files') = 2
  /\ DOMAIN files' = DOMAIN files \cup {<<t + k * NodeStep, NodeStep>>}
  /\ files'[<<t + k * NodeStep, NodeStep>>].data = <<last'.datapoints[1][2]>>

singlePointWrite(t, k) ==
  /\ onlySliceEndsAt(t)
  /\ last'.op = "write"
  /\ Len(last'.datapoints) = 1
  /\ last'.datapoints[1][1] = t + k * NodeStep

\* C2 as stated: on a node whose only slice ends with a point at time t, a
\* Node.write of a single point at t + 80*step stores it in that slice, and
\* one at t + 81*step leaves two slices, the second starting at t + 81*step.
C2_AsStated ==
  [][\A t \in AlignedTimes :
       /\ singlePointWrite(t, MAX_SLICE_GAP) => storedInSameSlice(t, MAX_SLICE_GAP)
       /\ singlePointWrite(t, MAX_SLICE_GAP + 1) => storedInSecondSlice(t, MAX_SLICE_GAP + 1)]_vars

\* C2, amended: on a node whose only slice ends with a point at time t, a
\* Node.write of a single point at t + 80*step or at t + 81*step stores it in
\* that same slice (80 missing points are padded), and one at t + 82*step
\* leaves two slices, the second starting at t + 82*step.
C2_GapPolicy ==
  [][\A t \in AlignedTimes :
       /\ singlePointWrite(t, MAX_SLICE_GAP) => storedInSameSlice(t, MAX_SLICE_GAP)
       /\ singlePointWrite(t, MAX_SLICE_GAP + 1) => storedInSameSlice(t, MAX_SLICE_GAP + 1)
       /\ singlePointWrite(t, MAX_SLICE_GAP + 2) => storedInSecondSlice(t, MAX_SLICE_GAP + 2)]_vars

\* a single point written MAX_SLICE_GAP + 1 steps after the last point of the
\* only slice, which holds it after MAX_SLICE_GAP padded positions
C2_Witness ==
  /\ last.op = "write"
  /\ Len(last.datapoints) = 1
  /\ Cardinality(DOMAIN files) = 1
  /\ \E s \in DOMAIN files :
       LET n == Len(files[s].data)
       IN /\ n >= MAX_SLICE_GAP + 2
          /\ files[s].data[n] = last.datapoints[1][2]
          /\ endTime(files, s) = last.datapoints[1][1] + NodeStep
          /\ files[s].data[n - MAX_SLICE_GAP - 1] # NAN
          /\ \A i \in (n - MAX_SLICE_GAP)..(n - 1) : files[s].data[i] = NAN

\* C3: in the state a Node.write(D) has left, a second Node.write(D) changes
\* no slice file: the same files, with the same contents.
C3_IdempotentOverwrite ==
  (last.op = "write" /\ last.status = "ok") =>
    LET again == CeresNode_write([fs |-> files, cache |-> sliceCache, log |-> <<>>],
                                 sliceCachingBehavior, timeStep, last.datapoints)
    IN again.status = "ok" /\ again.st.fs = files

\* a write of two points that went to two slices, one of them older
C3_Witness ==
  /\ last.op = "write" /\ last.status = "ok"
  /\ Len(last.datapoints) = 2
  /\ Cardinality(DOMAIN files) >= 2
  /\ \E s \in DOMAIN files : Len(files[s].data) > 1

\* the intervals [startTime, endTime) of two slices
disjoint(fs, s1, s2) == endTime(fs, s1) <= s2[1] \/ endTime(fs, s2) <= s1[1]

\* C4: after any sequence of Node.write calls on an empty node, the intervals
\* [startTime, endTime) of the slices with the node's timeStep are pairwise
\* disjoint.
C4_NonOverlapping ==
  \A s1 \in DOMAIN files : \A s2 \in DOMAIN files :
    (s1 # s2 /\ s1[2] = NodeStep /\ s2[2] = NodeStep) => disjoint(files, s1, s2)

\* C7: every series Node.read(from, until) returns starts at `from` floored to
\* the node's timeStep, ends at `until` floored to it, and has
\* (endTime - startTime) / timeStep values.
C7_WellFormedRead ==
  (last.op = "read" /\ last.status = "ok") =>
    /\ last.series.startTime = last.args[1] - (last.args[1] % NodeStep)
    /\ last.series.endTime = last.args[2] - (last.args[2] % NodeStep)
    /\ Len(last.series.values) * last.series.timeStep
         = last.series.endTime - last.series.startTime

open(t) == t = None \/ t = 0

\* the slice's interval [startTime, endTime) meets [fromTime, untilTime)
intersects(fs, s, fromTime, untilTime) ==
  /\ s[1] < endTime(fs, s)
  /\ open(fromTime) \/ fromTime < endTime(fs, s)
  /\ open(untilTime) \/ untilTime > s[1]

\* C8: hasDataForInterval(from, until) is true iff the interval of some slice
\* meets [from, until), None or 0 being an open bound; it is false for a
\* request that lies in a gap between two slices.
C8_HasDataForInterval ==
  last.op = "hasDataForInterval" =>
    (last.answer <=> \E s \in DOMAIN files :
                       intersects(files, s, last.args[1], last.args[2]))

(***************************************************************************)
(* Properties of Node.write with Slice.deleteBefore (SpecDelete).          *)
(***************************************************************************)
\* C5: after any sequence of Node.write and Slice.deleteBefore calls, every
\* slice file has startTime % timeStep = 0 and a size that is a multiple of
\* 8 bytes.
C5_StepAlignment ==
  \A s \in DOMAIN files :
    /\ s[1] % s[2] = 0
    /\ files[s].size % 8 = 0

\* a deleteBefore(t), t not on a step, that cut a slice and renamed it to the
\* next step after t
C5_Witness ==
  /\ last.op = "deleteBefore"
  /\ last.status = "ok"
  /\ last.args[3] % last.args[2] # 0
  /\ <<last.args[1], last.args[2]>> \notin DOMAIN files
  /\ <<last.args[3] - (last.args[3] % last.args[2]) + last.args[2], last.args[2]>>
       \in DOMAIN files

(***************************************************************************)
(* Properties of Slice.write (SpecSliceWrite) and Slice.read (SpecSlice).  *)
(***************************************************************************)
\* the number of missing points between the end of the slice and the first
\* timestamp of the sequence
missingPoints(fs, slice, sequence) ==
  (((sequence[1][1] - slice[1]) \div slice[2]) * 8 - fs[slice].size) \div 8

\* the file before and after a write that padded m points
paddedAndStored(before, after, slice, sequence, m) ==
  LET old == Len(before.data)
  IN /\ Len(after.data) = old + m + Len(sequence)
     /\ after.size = 8 * Len(after.data)
     /\ \A i \in 1..old : after.data[i] = before.data[i]
     /\ \A i \in (old + 1)..(old + m) : after.data[i] = NAN
     /\ \A k \in 1..Len(sequence) :
          after.data[(sequence[k][1] - slice[1]) \div slice[2] + 1] = sequence[k][2]

\* C9: for a sequence whose first timestamp lies beyond the end of the slice,
\* with m = (byteOffset - fileSize) / 8 missing points, Slice.write fails with
\* SliceGapTooLarge exactly when m > 80, and then leaves the file unchanged;
\* otherwise it fills the m positions with missing values, stores every (t, v)
\* at index (t - startTime) / timeStep and leaves the earlier positions as
\* they were.
C9_SliceWriteGap ==
  [][\A slice \in DOMAIN files :
       (/\ last'.op = "slice.write"
        /\ last'.args = slice
        /\ missingPoints(files, slice, last'.datapoints) > 0)
       => LET m == missingPoints(files, slice, last'.datapoints)
          IN /\ last'.status = "SliceGapTooLarge" <=> m > 80
             /\ m > 80 => files' = files
             /\ m <= 80 =>
                  /\ last'.status = "ok"
                  /\ DOMAIN files' = DOMAIN files
                  /\ \A other \in DOMAIN files \ {slice} : files'[other] = files[other]
                  /\ paddedAndStored(files[slice], files'[slice], slice,
                                     last'.datapoints, m)]_vars

\* a Slice.write that padded exactly 80 missing points before its sequence
C9_Witness ==
  /\ last.op = "slice.write"
  /\ last.status = "ok"
  /\ last.args \in DOMAIN files
  /\ LET data == files[last.args].data
         first == (last.datapoints[1][1] - last.args[1]) \div last.args[2] + 1
     IN /\ first > 81
        /\ Len(data) = first + Len(last.datapoints) - 1
        /\ data[first] = last.datapoints[1][2]
        /\ data[first - 81] # NAN
        /\ \A i \in (first - 80)..(first - 1) : data[i] = NAN

\* C10: Slice.read(from, until) fails with InvalidRequest when from <
\* startTime, with NoData when the byte offset of `from` is at or past the end
\* of the file, and otherwise returns a series with startTime = from and
\* endTime = from + n * timeStep, n the smaller of the requested points (none
\* for an empty request) and the points stored from that offset on, whose
\* values are the stored samples with NaN reported as missing; the file is
\* unchanged in all three cases.
C10_SliceRead ==
  [][last'.op = "slice.read" =>
       LET slice == <<last'.args[1], last'.args[2]>>
           fromTime == last'.args[3]
           untilTime == last'.args[4]
           offset == (fromTime - slice[1]) \div slice[2]
           stored == Len(files[slice].data) - offset
           requested == Max(0, (untilTime - fromTime) \div slice[2])
           n == Min(requested, stored)
       IN /\ files' = files
          /\ IF fromTime < slice[1] THEN last'.status = "InvalidRequest"
             ELSE IF offset * 8 >= files[slice].size THEN last'.status = "NoData"
             ELSE /\ last'.status = "ok"
                  /\ last'.series.startTime = fromTime
                  /\ last'.series.endTime = fromTime + n * slice[2]
                  /\ last'.series.timeStep = slice[2]
                  /\ Len(last'.series.values) = n
                  /\ \A i \in 1..n :
                       last'.series.values[i] =
                         (IF files[slice].data[offset + i] = NAN THEN None
                          ELSE files[slice].data[offset + i])]_vars

(***************************************************************************)
(* Properties of Node.read before all slices (SpecMeta).                   *)
(***************************************************************************)
\* the output step the metadata gives for a request that ends at untilTime
metadataStep(untilTime) ==
  IF metadata.hasRetentions
  THEN retentionStep(metadata.retentions, untilTime - (untilTime % metadata.timeStep),
                     Now, 0, metadata.timeStep)
  ELSE metadata.timeStep

\* C6: for a node with or without `retentions` in its metadata, read through
\* a handle that has or has not loaded its timeStep, and every request
\* [from, until) with until <= the smallest slice startTime, Node.read returns
\* normally a series of (until - from) / outputStep values, all missing; when
\* no slice touches the request the output step is the one the metadata gives,
\* or DEFAULT_TIMESTEP.
C6_ReadPadding ==
  (/\ last.op = "read"
   /\ DOMAIN files # {}
   /\ \A s \in DOMAIN files : last.args[2] <= s[1])
  => /\ last.status = "ok"
     /\ Len(last.series.values) * last.series.timeStep
          <= (last.args[2] - (last.args[2] % metadata.timeStep))
             - (last.args[1] - (last.args[1] % metadata.timeStep))
     /\ (Len(last.series.values) + 1) * last.series.timeStep
          > (last.args[2] - (last.args[2] % metadata.timeStep))
            - (last.args[1] - (last.args[1] % metadata.timeStep))
     /\ \A i \in 1..Len(last.series.values) : last.series.values[i] = None
     /\ (\A s \in DOMAIN files : last.args[2] < s[1])
          => last.series.timeStep \in {metadataStep(last.args[2]), DEFAULT_TIMESTEP}

(***************************************************************************)
(* Properties of a slice object that is kept (SpecHandle).                 *)
(***************************************************************************)
\* t rounded up to the step
ceilToStep(t, step) == IF t % step # 0 THEN t - (t % step) + step ELSE t

\* C11: deleteBefore(t) with t' = ceil(t / timeStep) * timeStep after the start
\* of the slice and inside it: after the call the file is named
\* <t'>@<timeStep>.slice, holds exactly the samples formerly stored at
\* timestamps >= t', each at its own timestamp, and the slice object's
\* startTime is t', so that it addresses the renamed file.
C11_DeleteBeforeTail ==
  [][(/\ last'.op = "handle.deleteBefore"
      /\ ceilToStep(last'.args[3], handle[2]) > handle[1]
      /\ ceilToStep(last'.args[3], handle[2]) < endTime(files, handle))
     => LET t == ceilToStep(last'.args[3], handle[2])
            renamed == <<t, handle[2]>>
            dropped == (t - handle[1]) \div handle[2]
        IN /\ last'.status = "ok"
           /\ renamed \in DOMAIN files'
           /\ handle \notin DOMAIN files'
           /\ Len(files'[renamed].data) = Len(files[handle].data) - dropped
           /\ \A i \in 1..Len(files'[renamed].data) :
                files'[renamed].data[i] = files[handle].data[dropped + i]
           /\ handle' = renamed
           /\ exists(files', handle')]_vars

(***************************************************************************)
(* Properties of TimeSeriesData.merge (SpecMerge).                         *)
(***************************************************************************)
\* the index of self.values at which the claim places other.values[i] (from 1)
mergedIndex(self, other, i) ==
  ((other.startTime - (other.startTime % self.timeStep)) + (i - 1) * self.timeStep
     - self.startTime) \div self.timeStep + 1

\* C12: for series of equal timeStep with other.startTime >= self.startTime,
\* after self.merge(other) every other.values[i] stands at index
\* (alignedOtherStart + i*timeStep - self.startTime)/timeStep of self.values,
\* every value of self outside the positions of other is unchanged (none is
\* lost), and self.endTime is the larger of the two end times.
C12_Merge ==
  (last.op = "merge" /\ last.args[1].timeStep = last.args[2].timeStep)
  => LET self == last.args[1]
         other == last.args[2]
         merged == last.series
         first == mergedIndex(self, other, 1)
         n == Len(other.values)
     IN /\ last.status = "ok"
        /\ \A i \in 1..n :
             /\ mergedIndex(self, other, i) <= Len(merged.values)
             /\ merged.values[mergedIndex(self, other, i)] = other.values[i]
        /\ \A j \in 1..Len(self.values) :
             (j < first \/ j >= first + n)
             => (j <= Len(merged.values) /\ merged.values[j] = self.values[j])
        /\ merged.endTime = Max(self.endTime, other.endTime)

(***************************************************************************)
(* Properties of CeresNode.compact (SpecCompact).                          *)
(***************************************************************************)
floored(t, step) == t - (t % step)

\* C13: compact returns sequences such that (1) no point has a missing value,
\* (2) the timestamps of all sequences are the timestamps of the input points
\* that have a value, floored to timeStep, each exactly once, (3) inside a
\* sequence each timestamp is the previous plus timeStep, (4) sequences are
\* non-empty and ascending, and the first timestamp of a sequence is more than
\* one timeStep after the last of the sequence before it.
C13_Compaction ==
  last.op = "compact"
  => LET sequences == last.answer
         datapoints == last.datapoints
         places == {<<k, i>> : k \in 1..Len(sequences), i \in 1..(MaxPoints + 2)}
         points == {p \in places : p[2] <= Len(sequences[p[1]])}
         at(p) == sequences[p[1]][p[2]]
     IN /\ \A p \in points : at(p)[2] # None
        /\ {at(p)[1] : p \in points}
             = {floored(datapoints[i][1], timeStep) :
                  i \in {j \in 1..Len(datapoints) : datapoints[j][2] # None}}
        /\ \A p, q \in points : at(p)[1] = at(q)[1] => p = q
        /\ \A p \in points : p[2] > 1 => at(p)[1] = at(<<p[1], p[2] - 1>>)[1] + timeStep
        /\ \A k \in 1..Len(sequences) : sequences[k] # <<>>
        /\ \A k \in 1..(Len(sequences) - 1) :
             sequences[k + 1][1][1] > sequences[k][Len(sequences[k])][1] + timeStep

\* an unsorted list with a timestamp off the step is compacted into a run of
\* two points and a separate single point
C13_Witness ==
  /\ last.op = "compact"
  /\ Len(last.answer) = 2
  /\ \E k \in 1..2 : Len(last.answer[k]) = 2
  /\ \E i \in 1..Len(last.datapoints) : last.datapoints[i][1] % timeStep # 0
  /\ \E i \in 1..(Len(last.datapoints) - 1) :
       last.datapoints[i][1] > last.datapoints[i + 1][1]

(***************************************************************************)
(* Properties of interleaved Node.write calls (SpecRace).                  *)
(***************************************************************************)
\* some slice of the node's step holds one of the values vs at timestamp t
storedSomewhere(t, vs) ==
  \E s \in DOMAIN files :
    /\ s[2] = timeStep
    /\ t >= s[1]
    /\ t < endTime(files, s)
    /\ files[s].data[(t - s[1]) \div s[2] + 1] \in vs

\* the values the writers have written at timestamp t
writtenAt(t) ==
  {writers[p[1]].datapoints[p[2]][2] :
     p \in {q \in Writers \X (1..(MaxPoints + 1)) :
              /\ q[2] <= Len(writers[q[1]].datapoints)
              /\ writers[q[1]].datapoints[q[2]][1] = t}}

\* C14: when two Node.write calls interleave at filesystem-operation
\* granularity, then after both have returned every sample either of them
\* wrote is stored at its timestamp in some slice (with the value of either
\* writer where both wrote the timestamp).
C14_NoLostRun ==
  (\A w \in Writers : writers[w].pc = "done" /\ writers[w].status = "ok")
  => \A w \in Writers : \A i \in 1..Len(writers[w].datapoints) :
       storedSomewhere(writers[w].datapoints[i][1],
                       writtenAt(writers[w].datapoints[i][1]))

(***************************************************************************)
(* Reads over several slices (Spec).                                       *)
(***************************************************************************)
\* the sample the slices hold for timestamp t: the stored double of the slice
\* that covers t, None for a stored NaN or when no slice covers t
sampleAt(t) ==
  LET covering == {s \in DOMAIN files : t >= s[1] /\ t < endTime(files, s)}
  IN IF covering = {} THEN None
     ELSE LET s == CHOOSE c \in covering : TRUE
              v == files[s].data[(t - s[1]) \div s[2] + 1]
          IN IF v = NAN THEN None ELSE v

\* C15: for a node holding one or more pairwise-disjoint slices of the node's
\* timeStep, Node.read(from, until) with from < until on the step returns a
\* series of length (until - from)/timeStep whose value at index i is the
\* sample stored for from + i*timeStep in the slice that covers it, and
\* missing where no slice covers that timestamp.
C15_Stitching ==
  (/\ last.op = "read"
   /\ DOMAIN files # {}
   /\ \A s \in DOMAIN files : s[2] = NodeStep
   /\ \A s1, s2 \in DOMAIN files : s1 # s2 => disjoint(files, s1, s2)
   /\ last.args[1] % NodeStep = 0
   /\ last.args[2] % NodeStep = 0
   /\ last.args[1] < last.args[2])
  => /\ last.status = "ok"
     /\ Len(last.series.values) = (last.args[2] - last.args[1]) \div NodeStep
     /\ \A i \in 1..Len(last.series.values) :
          last.series.values[i] = sampleAt(last.args[1] + (i - 1) * NodeStep)

(***************************************************************************)
(* Which slices a Node.write creates (SpecWrite).                          *)
(***************************************************************************)
\* the slices of the node's step before the call
matching == {o \in DOMAIN files : o[2] = NodeStep}

\* the slice that owns timestamp t before the call: the newest matching slice
\* that starts at or before t
owner(t) ==
  CHOOSE o \in matching : o[1] <= t /\ \A p \in matching : p[1] <= t => p[1] <= o[1]

\* t is so far past the end of its owning slice that Slice.write rejects it
gapRejected(t) ==
  /\ \E o \in matching : o[1] <= t
  /\ (t - endTime(files, owner(t))) \div NodeStep > MAX_SLICE_GAP

\* C16: a Node.write creates a new slice for a sequence only if no slice of
\* the node's step exists, or the sequence predates every matching slice, or
\* its owning slice rejected it with SliceGapTooLarge; a sequence that an
\* existing slice holds does not get a new slice as well.
C16_CreateOnlyWhenNeeded ==
  [][(last'.op = "write" /\ last'.status = "ok")
     => \A s \in DOMAIN files' \ DOMAIN files :
          \/ matching = {}
          \/ \A o \in matching : s[1] < o[1]
          \/ gapRejected(s[1])]_vars

(***************************************************************************)
(* A Node.write whose sequence straddles the newest slice (SpecWrite).     *)
(***************************************************************************)
\* the newest of a non-empty set of slices
newest(S) == CHOOSE s \in S : \A o \in S : o[1] <= s[1]

\* the call writes two contiguous points, the first one step before the start
\* of the newest matching slice and the second at its start
straddlingWrite ==
  /\ last'.op = "write"
  /\ matching # {}
  /\ Len(last'.datapoints) = 2
  /\ stepAligned(last'.datapoints)
  /\ last'.datapoints[2][1] = last'.datapoints[1][1] + NodeStep
  /\ last'.datapoints[2][1] = newest(matching)[1]

\* C17: when a contiguous sequence begins before the startTime of the newest
\* matching slice S and ends at or after it, Node.write stores the points from
\* S.startTime on in S and nothing else there, and stores the earlier points in
\* the next older matching slice (when that slice is near enough to take
\* them), creating no slice, or, when no older matching slice exists, in one
\* new slice that starts at the sequence's first timestamp.
C17_StraddlingWrite ==
  [][straddlingWrite
     => LET S == newest(matching)
            older == matching \ {S}
            first == last'.datapoints[1]
            second == last'.datapoints[2]
            created == <<first[1], NodeStep>>
        IN /\ last'.status = "ok"
           /\ files'[S].data[1] = second[2]
           /\ Len(files'[S].data) = Max(1, Len(files[S].data))
           /\ \A i \in 2..Len(files[S].data) : files'[S].data[i] = files[S].data[i]
           /\ older = {}
                => /\ DOMAIN files' = DOMAIN files \cup {created}
                   /\ files'[created].data = <<first[2]>>
           /\ (older # {} /\ ~gapRejected(first[1]))
                => /\ DOMAIN files' = DOMAIN files
                   /\ LET O == newest(older)
                      IN files'[O].data[(first[1] - O[1]) \div NodeStep + 1] = first[2]]_vars

(***************************************************************************)
(* The output step of a read over slices of different steps (SpecSteps).   *)
(***************************************************************************)
\* the slices whose interval [startTime, endTime) overlaps [fromTime, untilTime)
overlapping(fromTime, untilTime) ==
  {s \in DOMAIN files : s[1] < untilTime /\ endTime(files, s) > fromTime}

\* the largest timeStep of a non-empty set of slices
largestStep(S) == CHOOSE step \in {s[2] : s \in S} : \A s \in S : s[2] <= step

\* C18: a Node.read(from, until) that touches at least one slice returns a
\* series whose timeStep is the largest timeStep among the slices whose
\* interval [startTime, endTime) overlaps [from, until); the other slices do
\* not influence it.
C18_OutputStep ==
  (/\ last.op = "read"
   /\ last.status = "ok"
   /\ overlapping(last.args[1], last.args[2]) # {})
  => last.series.timeStep = largestStep(overlapping(last.args[1], last.args[2]))

(***************************************************************************)
(* Node.write against a concurrent deleteBefore (SpecDeleted).             *)
(***************************************************************************)
\* C19: when slice files may be removed or renamed by a concurrent
\* deleteBefore between any two filesystem operations, neither
\* SliceGapTooLarge nor SliceDeleted leaves Node.write, whichever branch
\* (owning slice, straddled slice, new slice) made the Slice.write that failed.
C19_RecoveredLocally ==
  \A w \in Writers :
    writers[w].pc = "done" => writers[w].status \notin {"SliceGapTooLarge", "SliceDeleted"}

\* C20: a SliceDeleted inside Node.write makes it run again from the original
\* datapoints at most once per top-level call.
C20_SingleRetry ==
  \A w \in Writers : writers[w].retries <= 1

(***************************************************************************)
(* The slice cache of a single actor (SpecCache).                          *)
(***************************************************************************)
\* C21: for one actor calling Node.write, Slice.deleteBefore, clearSliceCache
\* and setSliceCachingBehavior in any order, the list Node.slices produces
\* under the caching behaviour in force is, between any two operations, the
\* current directory listing (what it produces under `none`), holds each
\* slice file exactly once and is ordered by startTime descending.
C21_CacheCoherence ==
  LET produced == slices(files, sliceCache, sliceCachingBehavior)
  IN /\ produced = readSlices(files)
     /\ {produced[i] : i \in 1..Len(produced)} = DOMAIN files
     /\ Len(produced) = Cardinality(DOMAIN files)
     /\ \A i \in 1..(Len(produced) - 1) : produced[i][1] > produced[i + 1][1]

\* under `all` or `latest`, a write over two or more slices has left the cache
\* populated
C21_Witness ==
  /\ last.op = "write"
  /\ sliceCache # <<>>
  /\ Cardinality(DOMAIN files) >= 2
  /\ sliceCachingBehavior \in {"all", "latest"}

(***************************************************************************)
(* Node.write and the slices of another timeStep (SpecStepsWrite).         *)
(***************************************************************************)
\* C22: Node.write never writes to, truncates, creates or removes a slice
\* file whose timeStep differs from the node's timeStep: every such file is
\* there after the call with the contents it had, and every file the call
\* adds has the node's timeStep.
C22_OtherStepUntouched ==
  [][last'.op = "write"
     => /\ \A s \in DOMAIN files :
             s[2] # timeStep' => (s \in DOMAIN files' /\ files'[s] = files[s])
        /\ \A s \in DOMAIN files' \ DOMAIN files : s[2] = timeStep']_vars

\* a write has stored a point in a slice of the node's step at a time that a
\* slice of another step covers as well
C22_Witness ==
  /\ last.op = "write"
  /\ last.status = "ok"
  /\ \E s \in DOMAIN files : \E o \in DOMAIN files :
       /\ s[2] = timeStep
       /\ o[2] # timeStep
       /\ \E i \in 1..Len(last.datapoints) :
            LET t == last.datapoints[i][1] - (last.datapoints[i][1] % timeStep)
            IN /\ t >= s[1] /\ t < endTime(files, s)
               /\ t >= o[1] /\ t < endTime(files, o)

(***************************************************************************)
(* What a Node.write leaves of the data stored before it (SpecWrite).      *)
(***************************************************************************)
\* the timestamps of a datapoint list, floored to the node's step
flooredTimes(datapoints) ==
  {floored(datapoints[i][1], NodeStep) : i \in 1..Len(datapoints)}

\* slice s of fs stores a sample (not a padding NaN) at its position i
sampleIn(fs, s, i) == i <= Len(fs[s].data) /\ fs[s].data[i] # NAN

\* C23: every sample that some slice stored before Node.write(D), at a
\* timestamp that is not among the floored timestamps of D, is stored at that
\* timestamp in some slice after the call; creating a slice never empties a
\* file that holds other samples.
C23_EarlierDataKept ==
  [][last'.op = "write"
     => \A s \in DOMAIN files : \A i \in 1..(MAX_SLICE_GAP + MaxPoints + 3) :
          (/\ sampleIn(files, s, i)
           /\ s[1] + (i - 1) * s[2] \notin flooredTimes(last'.datapoints))
          => \E o \in DOMAIN files' :
               /\ o[2] = s[2]
               /\ s[1] + (i - 1) * s[2] >= o[1]
               /\ LET k == (s[1] + (i - 1) * s[2] - o[1]) \div o[2] + 1
                  IN k <= Len(files'[o].data) /\ files'[o].data[k] = files[s].data[i]]_vars

(***************************************************************************)
(* Where a Node.write puts the points it is given (SpecWrite).             *)
(***************************************************************************)
\* the points of the sequences compact makes of the list just written
compactedPoints ==
  LET sequences == compact(last.datapoints, NodeStep)
  IN {sequences[p[1]][p[2]] :
        p \in {q \in (1..Len(sequences)) \X (1..(MaxPoints + 1)) :
                 q[2] <= Len(sequences[q[1]])}}

\* the contiguous sequences compact() makes of the lists a write may be given
compactedSequences ==
  UNION {LET sequences == compact(datapoints, NodeStep)
         IN {sequences[k] : k \in 1..Len(sequences)} : datapoints \in CacheLists}

\* in the state the node is in, the first pass of a write of `sequence` over
\* the slices hands Slice.write the whole sequence (owning slice) or two
\* non-empty parts of it that make it up (straddled slice)
dispatchedWhole(sequence) ==
  LET d == dispatch(readSlices(files), NodeStep, sequence, <<>>, None, FALSE)
  IN /\ d.kind = "owning" => d.payload = sequence
     /\ d.kind = "straddle"
          => /\ d.payload # <<>>
             /\ d.leftover # <<>>
             /\ d.leftover \o d.payload = sequence

\* C24: whenever one actor's Node.write(D) returns normally, every point
\* (t, v) of compact(D) is stored with value v at timestamp t in a slice of
\* the node's timeStep; the truncation at the slice boundary discards no
\* point, and Slice.write is never called with an empty sequence.
C24_NoPointDropped ==
  /\ last.op = "write"
       => /\ last.status # "IndexError"
          /\ last.status = "ok"
               => \A point \in compactedPoints : storedSomewhere(point[1], {point[2]})
  /\ \A sequence \in compactedSequences : dispatchedWhole(sequence)

\* a write has returned normally after a point passed a newer slice and was
\* stored in the older slice that owns its timestamp
C24_Witness ==
  /\ last.op = "write"
  /\ last.status = "ok"
  /\ \E point \in compactedPoints : \E o \in DOMAIN files : \E n \in DOMAIN files :
       /\ o[2] = NodeStep /\ n[2] = NodeStep
       /\ o[1] < point[1]
       /\ point[1] < n[1]
       /\ point[1] < endTime(files, o)
       /\ files[o].data[(point[1] - o[1]) \div NodeStep + 1] = point[2]

====
